---- MODULE Spec2Model ----
(***************************************************************************)
(* Local model lifecycle of the Contour (Thonny) Pydantic AI plugin:       *)
(*   thonny/plugins/pydantic_ai_assistant.py  background preload of the    *)
(*       llama-cpp-python model and the accessor of the shared handle      *)
(*   thonny/plugins/llama_download.py         models directory, deletion   *)
(***************************************************************************)
EXTENDS Integers, Sequences, FiniteSets, TLC

\* ------------------------------------------------------------------------
\* Bounds
\* ------------------------------------------------------------------------
\* number of invocations of _start_llama_preload (one thread each)
MaxLoads == 2

Loads == 1..MaxLoads

\* ------------------------------------------------------------------------
\* Python values
\* ------------------------------------------------------------------------
\* Optional[x]: None is the empty tuple, a value x is <<x>>
None == <<>>
Some(x) == <<x>>

\* strings that the code inspects are tuples of one-character strings
SP == " "
SLASH == "/"
DOT == "."

RECURSIVE LStrip(_)
LStrip(s) == IF s # <<>> /\ Head(s) = SP THEN LStrip(Tail(s)) ELSE s

RECURSIVE RStrip(_)
RStrip(s) == IF s # <<>> /\ s[Len(s)] = SP THEN RStrip(SubSeq(s, 1, Len(s) - 1)) ELSE s

\* str.strip()
Strip(s) == RStrip(LStrip(s))

\* str.startswith(prefix)
StartsWith(s, prefix) ==
    /\ Len(prefix) <= Len(s)
    /\ SubSeq(s, 1, Len(prefix)) = prefix

\* str.endswith(suffix)
EndsWith(s, suffix) ==
    /\ Len(suffix) <= Len(s)
    /\ SubSeq(s, Len(s) - Len(suffix) + 1, Len(s)) = suffix

\* ------------------------------------------------------------------------
\* int(x) and the clamping of the context window (lines 158-166)
\* ------------------------------------------------------------------------
\* an option value: an int, a str or None
PyInt(n) == [t |-> "int", v |-> n, s |-> <<>>]
PyStr(s) == [t |-> "str", v |-> 0, s |-> s]
PyNone == [t |-> "none", v |-> 0, s |-> <<>>]

Digits == <<"0", "1", "2", "3", "4", "5", "6", "7", "8", "9">>

IsDigit(c) == \E d \in 1..10 : Digits[d] = c

DigitVal(c) == (CHOOSE d \in 1..10 : Digits[d] = c) - 1

RECURSIVE DecVal(_)
DecVal(s) == IF s = <<>> THEN 0 ELSE 10 * DecVal(SubSeq(s, 1, Len(s) - 1)) + DigitVal(s[Len(s)])

AllDigits(s) == s # <<>> /\ \A k \in 1..Len(s) : IsDigit(s[k])

\* the part of a stripped literal after an optional sign
Unsigned(s) == IF s # <<>> /\ Head(s) \in {"-", "+"} THEN Tail(s) ELSE s

\* int(x) raises ValueError for a str that is not an integer literal and
\* TypeError for None
IntRaises(x) ==
    \/ x.t = "none"
    \/ x.t = "str" /\ ~AllDigits(Unsigned(Strip(x.s)))

\* int(x) where it does not raise
IntOf(x) ==
    IF x.t = "int" THEN x.v
    ELSE IF Strip(x.s) # <<>> /\ Head(Strip(x.s)) = "-"
         THEN 0 - DecVal(Unsigned(Strip(x.s)))
         ELSE DecVal(Unsigned(Strip(x.s)))

N_CTX_MIN == 512
N_CTX_MAX == 65536
N_CTX_DEFAULT == 4096

\* faulty variant: the upper bound is not applied
NormalizeNCtxNoUpper(x) ==
    IF IntRaises(x) THEN N_CTX_DEFAULT
    ELSE IF IntOf(x) < N_CTX_MIN THEN N_CTX_MIN
    ELSE IntOf(x)

\* lines 158-166 of _preload_llama_model
NormalizeNCtx(x) ==
    IF IntRaises(x) THEN N_CTX_DEFAULT
    ELSE IF IntOf(x) < N_CTX_MIN THEN N_CTX_MIN
    ELSE IF IntOf(x) > N_CTX_MAX THEN N_CTX_MAX
    ELSE IntOf(x)


\* ------------------------------------------------------------------------
\* Paths and the file system
\* ------------------------------------------------------------------------
\* get_thonny_user_dir()
UserDir == <<"/", "t">>

\* os.path.join(a, b)
PathJoin(a, b) ==
    IF b # <<>> /\ Head(b) = SLASH THEN b
    ELSE IF a = <<>> \/ a[Len(a)] = SLASH THEN a \o b
    ELSE a \o <<SLASH>> \o b

\* get_models_dir(): os.path.join(get_thonny_user_dir(), "models")
ModelsDir == PathJoin(UserDir, <<"m", "o", "d", "e", "l", "s">>)

GGUF == <<".", "g", "g", "u", "f">>

\* the model file that is on disk in the models directory
ModelA == PathJoin(ModelsDir, <<"a">> \o GGUF)

\* a model file that is not on disk
ModelMissing == PathJoin(ModelsDir, <<"b">> \o GGUF)

\* files on disk next to the models directory and inside it
ModelUpper == PathJoin(ModelsDir, <<"A", ".", "G", "G", "U", "F">>)
NotesTxt == PathJoin(ModelsDir, <<"n", ".", "t", "x", "t">>)
NestedModel == PathJoin(PathJoin(ModelsDir, <<"s">>), <<"d">> \o GGUF)
OutsideModel == PathJoin(UserDir, <<"x">> \o GGUF)
SiblingDir == ModelsDir \o <<"2">>
SiblingModel == PathJoin(SiblingDir, <<"c">> \o GGUF)

DiskFiles == {ModelA, ModelUpper, NotesTxt, NestedModel, OutsideModel, SiblingModel}

UpperCase == <<"A", "B", "C", "D", "E", "F", "G", "H", "I", "J", "K", "L", "M",
               "N", "O", "P", "Q", "R", "S", "T", "U", "V", "W", "X", "Y", "Z">>
LowerCase == <<"a", "b", "c", "d", "e", "f", "g", "h", "i", "j", "k", "l", "m",
               "n", "o", "p", "q", "r", "s", "t", "u", "v", "w", "x", "y", "z">>

LowerChar(c) ==
    IF \E k \in 1..26 : UpperCase[k] = c
    THEN LowerCase[CHOOSE k \in 1..26 : UpperCase[k] = c]
    ELSE c

\* str.lower()
Lower(str) == [k \in 1..Len(str) |-> LowerChar(str[k])]

\* str.split("/"): cur is the part read since the last separator
RECURSIVE SplitFrom(_, _)
SplitFrom(str, cur) ==
    IF str = <<>> THEN <<cur>>
    ELSE IF Head(str) = SLASH THEN <<cur>> \o SplitFrom(Tail(str), <<>>)
    ELSE SplitFrom(Tail(str), Append(cur, Head(str)))

Split(str) == SplitFrom(str, <<>>)

\* "/".join(comps)
RECURSIVE JoinComps(_)
JoinComps(comps) ==
    IF comps = <<>> THEN <<>>
    ELSE IF Len(comps) = 1 THEN comps[1]
    ELSE comps[1] \o <<SLASH>> \o JoinComps(Tail(comps))

DotDot == <<DOT, DOT>>

\* the loop of posixpath.normpath over the components
RECURSIVE NormComps(_, _, _)
NormComps(comps, acc, rooted) ==
    IF comps = <<>> THEN acc
    ELSE LET c == Head(comps) IN
         IF c = <<>> \/ c = <<DOT>>
         THEN NormComps(Tail(comps), acc, rooted)
         ELSE IF \/ c # DotDot
                 \/ (~rooted /\ acc = <<>>)
                 \/ (acc # <<>> /\ acc[Len(acc)] = DotDot)
         THEN NormComps(Tail(comps), Append(acc, c), rooted)
         ELSE IF acc # <<>>
         THEN NormComps(Tail(comps), SubSeq(acc, 1, Len(acc) - 1), rooted)
         ELSE NormComps(Tail(comps), acc, rooted)

\* number of leading slashes that posixpath.normpath keeps
InitialSlashes(p) ==
    IF ~StartsWith(p, <<SLASH>>) THEN <<>>
    ELSE IF StartsWith(p, <<SLASH, SLASH>>) /\ ~StartsWith(p, <<SLASH, SLASH, SLASH>>)
    THEN <<SLASH, SLASH>>
    ELSE <<SLASH>>

\* os.path.normpath(p)
Normpath(p) ==
    IF p = <<>> THEN <<DOT>>
    ELSE LET res == InitialSlashes(p)
                      \o JoinComps(NormComps(Split(p), <<>>, InitialSlashes(p) # <<>>))
         IN  IF res = <<>> THEN <<DOT>> ELSE res

\* os.path.abspath(p) with the current directory wd
Abspath(p, wd) ==
    IF StartsWith(p, <<SLASH>>) THEN Normpath(p) ELSE Normpath(PathJoin(wd, p))

VARIABLES
    llama_instance,
    llama_load_error,
    llama_loading,
    llama_cpp_installed,
    pc,
    path,
    n_ctx_opt,
    n_ctx,
    exc,
    events,
    ui_pc,
    ui_llm,
    files,
    cwd,
    del_call,
    fdata,
    dl,
    dl_prev,
    env_vars,
    listing,
    mtimes,
    found,
    chat,
    ready,
    conv,
    page,
    cfg

loaderVars == <<llama_instance, llama_load_error, llama_loading, llama_cpp_installed,
                pc, path, n_ctx_opt, n_ctx, exc, events>>

uiVars == <<ui_pc, ui_llm>>

storeVars == <<files, cwd, del_call>>

dlVars == <<fdata, dl, dl_prev>>

\* the variables of the download, detection and chat parts together
detectVars == <<env_vars, listing, mtimes, found>>

chatVars == <<chat, ready, conv>>

\* the download flow of the settings page and the options of the workbench
pageVars == <<page, cfg>>

restVars == <<dlVars, detectVars, chatVars, pageVars>>

vars == <<loaderVars, uiVars, storeVars, restVars>>

\* faulty variant: every path is taken for a regular file
IsFileAlways(p) == TRUE

\* os.path.isfile(p) for an absolute path without "." and ".." segments
IsFile(p) == p \in files

\* ------------------------------------------------------------------------
\* The lock _llama_loading
\* ------------------------------------------------------------------------
\* holder of the lock: Free, a load thread, or the thread calling the accessor
Free == 0
UiThread == MaxLoads + 1

\* faulty variant: the with block is entered without waiting for the lock
LockAcquireNoWait(t) == llama_loading' = t

\* faulty variant: a thread that waits for the lock is never let in
LockAcquireBlocked(t) == FALSE /\ llama_loading' = t

\* "with _llama_loading:" entered by thread t: blocks while the lock is held
LockAcquire(t) ==
    /\ llama_loading = Free
    /\ llama_loading' = t

\* faulty variant: the lock is kept when the with block is left
LockReleaseForgotten(t) == llama_loading' = t

\* leaving the with block
LockRelease(t) == llama_loading' = Free

\* ------------------------------------------------------------------------
\* _start_llama_preload / _preload_llama_model
\* ------------------------------------------------------------------------
\* values of LLAMA_MODEL_PATH_OPTION a load can find
PathOptions ==
    { <<>>,
      <<SP>>,
      ModelsDir,
      ModelMissing,
      ModelA,
      <<SP>> \o ModelA \o <<SP>> }

\* values of LLAMA_N_CTX_OPTION a load can find
CtxOptions == { PyInt(8192), PyStr(<<"a", "b", "c">>) }

\* str(e) of an exception raised by Llama(...)
LoadErrors == { "", "failed to load model" }

\* str(e) of the ImportError of "from llama_cpp import Llama"
ImportErrorMsg == "No module named 'llama_cpp'"

Event(kind, i, m) == [ev |-> kind, by |-> i, msg |-> m]

\* faulty variant: the isfile test is forgotten
PathIsUsableNoFileCheck(p) == p # <<>>

\* line 155: "if not path or not os.path.isfile(path): return", negated
PathIsUsable(p) == p # <<>> /\ IsFile(p)

\* faulty variant: line 171 is missing
ErrorAtLoadStartKept == llama_load_error

\* line 171: the value given to _llama_load_error before the model is built
ErrorAtLoadStart == None

\* faulty variant: a handle that is already published is kept (first load wins)
InstanceFirstWins(i) == IF llama_instance # None THEN llama_instance ELSE Some(i)

\* line 180: the value given to _llama_instance by the load of thread i
InstanceOnSuccess(i) == Some(i)

\* faulty variant: line 181 is missing
ErrorOnSuccessKept == llama_load_error

\* line 181: the value given to _llama_load_error by a successful load
ErrorOnSuccess == None

\* line 186: the value given to _llama_load_error, str(e)
ErrorOnFailure(i) == exc[i]

\* faulty variant: line 187 is missing
InstanceOnFailureKept == llama_instance

\* line 187: the value given to _llama_instance by a failed load
InstanceOnFailure == None

\* line 190-193: a new daemon thread per call; threads are numbered in the
\* order of the calls
StartLlamaPreload(i) ==
    /\ pc[i] = "idle"
    /\ i > 1 => pc[i - 1] # "idle"
    /\ pc' = [pc EXCEPT ![i] = "l153"]
    /\ events' = Append(events, Event("start", i, ""))
    /\ UNCHANGED <<llama_instance, llama_load_error, llama_loading, llama_cpp_installed,
                   path, n_ctx_opt, n_ctx, exc>>
    /\ UNCHANGED <<uiVars, storeVars, restVars>>

\* lines 153-166: read the options, return when there is no model file,
\* normalise n_ctx
PreloadReadConfig(i, paths, ctxs) ==
    /\ pc[i] = "l153"
    /\ \E p \in paths, c \in ctxs :
         /\ path' = [path EXCEPT ![i] = Strip(p)]
         /\ IF ~PathIsUsable(Strip(p))
            THEN /\ pc' = [pc EXCEPT ![i] = "done"]
                 /\ UNCHANGED <<n_ctx_opt, n_ctx>>
            ELSE /\ pc' = [pc EXCEPT ![i] = "l168"]
                 /\ n_ctx_opt' = [n_ctx_opt EXCEPT ![i] = c]
                 /\ n_ctx' = [n_ctx EXCEPT ![i] = NormalizeNCtx(c)]
    /\ UNCHANGED <<llama_instance, llama_load_error, llama_loading, llama_cpp_installed,
                   exc, events>>
    /\ UNCHANGED <<uiVars, storeVars, restVars>>

\* line 168: from llama_cpp import Llama
PreloadImport(i) ==
    /\ pc[i] = "l168"
    /\ IF llama_cpp_installed
       THEN /\ pc' = [pc EXCEPT ![i] = "l170"]
            /\ UNCHANGED <<exc, n_ctx_opt, n_ctx>>
       ELSE /\ pc' = [pc EXCEPT ![i] = "l185"]
            /\ exc' = [exc EXCEPT ![i] = Some(ImportErrorMsg)]
            /\ n_ctx_opt' = [n_ctx_opt EXCEPT ![i] = PyNone]
            /\ n_ctx' = [n_ctx EXCEPT ![i] = 0]
    /\ UNCHANGED <<llama_instance, llama_load_error, llama_loading, llama_cpp_installed,
                   path, events>>
    /\ UNCHANGED <<uiVars, storeVars, restVars>>

\* line 170: with _llama_loading
PreloadLockClear(i) ==
    /\ pc[i] = "l170"
    /\ LockAcquire(i)
    /\ pc' = [pc EXCEPT ![i] = "l171"]
    /\ UNCHANGED <<llama_instance, llama_load_error, llama_cpp_installed,
                   path, n_ctx_opt, n_ctx, exc, events>>
    /\ UNCHANGED <<uiVars, storeVars, restVars>>

\* line 171: _llama_load_error = None, end of the with block
PreloadClearError(i) ==
    /\ pc[i] = "l171"
    /\ llama_load_error' = ErrorAtLoadStart
    /\ LockRelease(i)
    /\ pc' = [pc EXCEPT ![i] = "l173"]
    /\ events' = Append(events, Event("clear", i, ""))
    /\ UNCHANGED <<llama_instance, llama_cpp_installed, path, n_ctx_opt, n_ctx, exc>>
    /\ UNCHANGED <<uiVars, storeVars, restVars>>

\* lines 173-178: llm = Llama(model_path=path, n_ctx=n_ctx, ...) returns the
\* handle of this load or raises
PreloadConstruct(i) ==
    /\ pc[i] = "l173"
    /\ \/ /\ pc' = [pc EXCEPT ![i] = "l179"]
          /\ UNCHANGED exc
       \/ \E m \in LoadErrors :
            /\ pc' = [pc EXCEPT ![i] = "l185"]
            /\ exc' = [exc EXCEPT ![i] = Some(m)]
    /\ n_ctx_opt' = [n_ctx_opt EXCEPT ![i] = PyNone]
    /\ n_ctx' = [n_ctx EXCEPT ![i] = 0]
    /\ UNCHANGED <<llama_instance, llama_load_error, llama_loading, llama_cpp_installed,
                   path, events>>
    /\ UNCHANGED <<uiVars, storeVars, restVars>>

\* line 179: with _llama_loading
PreloadLockReady(i) ==
    /\ pc[i] = "l179"
    /\ LockAcquire(i)
    /\ pc' = [pc EXCEPT ![i] = "l180"]
    /\ UNCHANGED <<llama_instance, llama_load_error, llama_cpp_installed,
                   path, n_ctx_opt, n_ctx, exc, events>>
    /\ UNCHANGED <<uiVars, storeVars, restVars>>

\* line 180: _llama_instance = llm
PreloadSetInstance(i) ==
    /\ pc[i] = "l180"
    /\ llama_instance' = InstanceOnSuccess(i)
    /\ pc' = [pc EXCEPT ![i] = "l181"]
    /\ events' = Append(events, Event("ready", i, ""))
    /\ UNCHANGED <<llama_load_error, llama_loading, llama_cpp_installed,
                   path, n_ctx_opt, n_ctx, exc>>
    /\ UNCHANGED <<uiVars, storeVars, restVars>>

\* line 181: _llama_load_error = None, end of the with block
PreloadSetNoError(i) ==
    /\ pc[i] = "l181"
    /\ llama_load_error' = ErrorOnSuccess
    /\ LockRelease(i)
    /\ pc' = [pc EXCEPT ![i] = "done"]
    /\ UNCHANGED <<llama_instance, llama_cpp_installed, path, n_ctx_opt, n_ctx, exc, events>>
    /\ UNCHANGED <<uiVars, storeVars, restVars>>

\* faulty variant: the exception is swallowed and nothing is published
PreloadDropFailure(i) ==
    /\ pc[i] = "l185"
    /\ pc' = [pc EXCEPT ![i] = "done"]
    /\ exc' = [exc EXCEPT ![i] = None]
    /\ UNCHANGED <<llama_instance, llama_load_error, llama_loading, llama_cpp_installed,
                   path, n_ctx_opt, n_ctx, events>>
    /\ UNCHANGED <<uiVars, storeVars, restVars>>

\* lines 183-185: except Exception as e: ... with _llama_loading
PreloadLockFailed(i) ==
    /\ pc[i] = "l185"
    /\ LockAcquire(i)
    /\ pc' = [pc EXCEPT ![i] = "l186"]
    /\ UNCHANGED <<llama_instance, llama_load_error, llama_cpp_installed,
                   path, n_ctx_opt, n_ctx, exc, events>>
    /\ UNCHANGED <<uiVars, storeVars, restVars>>

\* line 186: _llama_load_error = str(e)
PreloadSetError(i) ==
    /\ pc[i] = "l186"
    /\ llama_load_error' = ErrorOnFailure(i)
    /\ pc' = [pc EXCEPT ![i] = "l187"]
    /\ events' = Append(events, Event("failed", i, exc[i][1]))
    /\ UNCHANGED <<llama_instance, llama_loading, llama_cpp_installed,
                   path, n_ctx_opt, n_ctx, exc>>
    /\ UNCHANGED <<uiVars, storeVars, restVars>>

\* line 187: _llama_instance = None, end of the with block
PreloadSetNoInstance(i) ==
    /\ pc[i] = "l187"
    /\ llama_instance' = InstanceOnFailure
    /\ LockRelease(i)
    /\ pc' = [pc EXCEPT ![i] = "done"]
    /\ exc' = [exc EXCEPT ![i] = None]
    /\ UNCHANGED <<llama_load_error, llama_cpp_installed, path, n_ctx_opt, n_ctx, events>>
    /\ UNCHANGED <<uiVars, storeVars, restVars>>

\* _preload_llama_model run by thread i
PreloadLlamaModel(i, paths, ctxs) ==
    \/ PreloadReadConfig(i, paths, ctxs)
    \/ PreloadImport(i)
    \/ PreloadLockClear(i)
    \/ PreloadClearError(i)
    \/ PreloadConstruct(i)
    \/ PreloadLockReady(i)
    \/ PreloadSetInstance(i)
    \/ PreloadSetNoError(i)
    \/ PreloadLockFailed(i)
    \/ PreloadSetError(i)
    \/ PreloadSetNoInstance(i)

\* ------------------------------------------------------------------------
\* _get_llama_model, called by the thread that asks for the handle
\* ------------------------------------------------------------------------
\* faulty variant: the handle is read without taking the lock
GetLlamaModelNoLock ==
    /\ ui_pc = "idle"
    /\ ui_pc' = "l147"
    /\ UNCHANGED <<loaderVars, ui_llm, storeVars, restVars>>

\* line 146: with _llama_loading
GetLlamaModelLock ==
    /\ ui_pc = "idle"
    /\ LockAcquire(UiThread)
    /\ ui_pc' = "l147"
    /\ UNCHANGED <<llama_instance, llama_load_error, llama_cpp_installed,
                   pc, path, n_ctx_opt, n_ctx, exc, events>>
    /\ UNCHANGED <<ui_llm, storeVars, restVars>>

\* line 147: return _llama_instance, end of the with block
GetLlamaModelReturn ==
    /\ ui_pc = "l147"
    /\ ui_llm' = llama_instance
    /\ LockRelease(UiThread)
    /\ ui_pc' = "ret"
    /\ UNCHANGED <<llama_instance, llama_load_error, llama_cpp_installed,
                   pc, path, n_ctx_opt, n_ctx, exc, events>>
    /\ UNCHANGED <<storeVars, restVars>>

\* the caller has used the returned value
GetLlamaModelDone ==
    /\ ui_pc = "ret"
    /\ ui_pc' = "idle"
    /\ ui_llm' = None
    /\ UNCHANGED <<loaderVars, storeVars, restVars>>

\* ------------------------------------------------------------------------
\* delete_model
\* ------------------------------------------------------------------------
\* the last call of delete_model: its argument, what it returned and the files
\* it removed
NoCall == [arg |-> <<>>, ret |-> None, removed |-> {}]

\* faulty variant: the separator is not appended to the directory
NotOutsideByPrefix(p, dir) == StartsWith(p, dir)

\* line 69, negated: "path.startswith(models_dir_abs + os.sep) or path == models_dir_abs"
NotOutside(p, dir) == StartsWith(p, dir \o <<SLASH>>) \/ p = dir

\* lines 64-76
DeleteModel(arg) ==
    LET p == Normpath(Abspath(arg, cwd))
        models_dir_abs == Normpath(Abspath(ModelsDir, cwd))
    IN  /\ IF ~NotOutside(p, models_dir_abs)
           THEN /\ del_call' = [arg |-> arg, ret |-> Some(FALSE), removed |-> {}]
                /\ UNCHANGED files
           ELSE IF ~EndsWith(Lower(p), GGUF)
           THEN /\ del_call' = [arg |-> arg, ret |-> Some(FALSE), removed |-> {}]
                /\ UNCHANGED files
           ELSE IF ~IsFile(p)
           THEN /\ del_call' = [arg |-> arg, ret |-> Some(FALSE), removed |-> {}]
                /\ UNCHANGED files
           ELSE /\ files' = files \ {p}
                /\ del_call' = [arg |-> arg, ret |-> Some(TRUE), removed |-> {p}]
        /\ UNCHANGED cwd
        /\ UNCHANGED <<loaderVars, uiVars, restVars>>

\* ------------------------------------------------------------------------
\* download_file
\* ------------------------------------------------------------------------
\* bytes of the longest response body (one unit stands for half a chunk)
MaxBody == 4

\* chunk_size of line 110, in the same unit
ChunkSize == 2

\* the destination of the downloads
Dest == ModelMissing

\* content of a path: nothing, the bytes that were on disk before, or the
\* first len bytes of a response body
Absent == [src |-> "none", len |-> 0]
OnDisk == [src |-> "disk", len |-> 1]
FromNet(n) == [src |-> "net", len |-> n]

Min(a, b) == IF a < b THEN a ELSE b

\* resp.headers.get("Content-Length"): no header, an empty value or a decimal
ContentLengths == {None, Some(<<>>)} \cup {Some(<<Digits[n + 1]>>) : n \in 0..MaxBody}

\* lines 107-108: total = int(total) if total else None
ParseTotal(h) ==
    IF h = None \/ h[1] = <<>> THEN None ELSE Some(IntOf(PyStr(h[1])))

\* faulty variant: the percentage is reported against the chunk size
PctOfChunk(size, total) ==
    [num |-> Min(100 * ChunkSize, 100 * size), den |-> ChunkSize, size |-> size, total |-> total]

\* lines 119-121: pct = min(100.0, 100 * size / total) as the fraction num/den,
\* with the byte counts that mb and total_mb are computed from
Pct(size, total) ==
    [num |-> Min(100 * total, 100 * size), den |-> total, size |-> size, total |-> total]

\* faulty variant: a total of 0 is not told from a positive one
ReportsProgressAnyTotal(cb, total) == cb /\ total # None

\* line 118: "if progress_callback and total and total > 0"
ReportsProgress(cb, total) == cb /\ total # None /\ total[1] # 0 /\ total[1] > 0

\* faulty variant: an existing destination is never skipped
SkipsExistingNever(dest, force) == FALSE

\* line 95: "if os.path.isfile(dest_path) and not force"
SkipsExisting(dest, force) == IsFile(dest) /\ ~force

\* a call of download_file that has not started; mpc, mdest and mret belong to
\* the call of download_model that made it, if one did
NoDownload ==
    [pc |-> "idle", force |-> FALSE, cb |-> FALSE, existed |-> FALSE,
     requested |-> FALSE, hdr |-> None, total |-> None, size |-> 0, left |-> 0,
     progress |-> <<>>, ret |-> None, raised |-> FALSE,
     mpc |-> "none", mdest |-> <<>>, mret |-> None]

\* what is kept of a call once the next one has started
Summary(d) ==
    [force |-> d.force, existed |-> d.existed, requested |-> d.requested,
     ret |-> d.ret, raised |-> d.raised, left |-> d.left]

NoSummary == Summary(NoDownload)

\* lines 95-98: return False for an existing destination unless force, else
\* create the directory of the destination
DownloadFileStart(force, cb) ==
    /\ dl.pc \in {"idle", "done"}
    /\ dl_prev' = IF dl.pc = "done" THEN Summary(dl) ELSE dl_prev
    /\ dl' = IF SkipsExisting(Dest, force)
             THEN [NoDownload EXCEPT !.pc = "done", !.force = force, !.cb = cb,
                                     !.existed = TRUE, !.ret = Some(FALSE)]
             ELSE [NoDownload EXCEPT !.pc = "l100", !.force = force, !.cb = cb,
                                     !.existed = IsFile(Dest)]
    /\ UNCHANGED <<fdata, loaderVars, uiVars, storeVars, detectVars, chatVars, pageVars>>

\* lines 100-105: urlopen(req) raises URLError or gives a response with its
\* Content-Length header and a body
DownloadFileUrlopenOf(headers, bodies) ==
    /\ dl.pc = "l100"
    /\ \/ dl' = [dl EXCEPT !.pc = "done", !.requested = TRUE, !.raised = TRUE]
       \/ \E h \in headers, body \in bodies :
            dl' = [dl EXCEPT !.pc = "l107", !.requested = TRUE, !.hdr = h, !.left = body]
    /\ UNCHANGED <<fdata, dl_prev, loaderVars, uiVars, storeVars, detectVars, chatVars, pageVars>>

\* faulty variant: the destination is opened for appending
OpenedForAppend(old) == FromNet(old.len)

\* line 111: open(dest_path, "wb") leaves an empty file
OpenedForWrite(old) == FromNet(0)

\* lines 107-111: parse the header, size = 0, open(dest_path, "wb") creates or
\* truncates the destination
DownloadFileOpenDest ==
    /\ dl.pc = "l107"
    /\ dl' = [dl EXCEPT !.pc = "l113", !.total = ParseTotal(dl.hdr), !.size = 0]
    /\ files' = files \cup {Dest}
    /\ fdata' = OpenedForWrite(fdata)
    /\ UNCHANGED <<dl_prev, loaderVars, uiVars, cwd, del_call, detectVars, chatVars, pageVars>>

\* lines 113-122, one round of the loop: resp.read(chunk_size) gives the next
\* bytes, f.write, size += len(chunk), the callback
DownloadFileWriteChunk ==
    /\ dl.pc = "l113"
    /\ dl.left > 0
    /\ LET n == Min(ChunkSize, dl.left)
           size == dl.size + n
       IN  /\ fdata' = FromNet(fdata.len + n)
           /\ dl' = [dl EXCEPT !.size = size,
                               !.left = dl.left - n,
                               !.progress = IF ReportsProgress(dl.cb, dl.total)
                                            THEN Append(dl.progress, Pct(size, dl.total[1]))
                                            ELSE dl.progress]
    /\ UNCHANGED <<dl_prev, loaderVars, uiVars, storeVars, detectVars, chatVars, pageVars>>

\* line 113: resp.read raises (connection lost); the with blocks close the
\* file and the response, the exception leaves download_file
DownloadFileReadFails ==
    /\ dl.pc = "l113"
    /\ dl.left > 0
    /\ dl' = [dl EXCEPT !.pc = "done", !.raised = TRUE]
    /\ UNCHANGED <<fdata, dl_prev, loaderVars, uiVars, storeVars, detectVars, chatVars, pageVars>>

\* lines 114-115 and 123: an empty chunk ends the loop, return True
DownloadFileReturn ==
    /\ dl.pc = "l113"
    /\ dl.left = 0
    /\ dl' = [dl EXCEPT !.pc = "done", !.ret = Some(TRUE)]
    /\ UNCHANGED <<fdata, dl_prev, loaderVars, uiVars, storeVars, detectVars, chatVars, pageVars>>

DownloadFileUrlopen == DownloadFileUrlopenOf(ContentLengths, 0..MaxBody)

DownloadFile ==
    \/ \E force \in BOOLEAN, cb \in BOOLEAN : DownloadFileStart(force, cb)
    \/ DownloadFileUrlopen
    \/ DownloadFileOpenDest
    \/ DownloadFileWriteChunk
    \/ DownloadFileReadFails
    \/ DownloadFileReturn

InitDl ==
    /\ fdata = Absent
    /\ dl = NoDownload
    /\ dl_prev = NoSummary

\* ------------------------------------------------------------------------
\* _find_local_gguf_model
\* ------------------------------------------------------------------------
\* largest modification time of a file
MaxTime == 2

\* number of calls of _find_local_gguf_model in a run
MaxScans == 2

\* common_dirs: the models directory, a directory that does not exist and one
\* more directory with a model
SearchDirs == <<ModelsDir, PathJoin(UserDir, <<"n", "o">>), SiblingDir>>

\* the model files that os.path.getmtime is asked about
Timed == {ModelA, ModelUpper, SiblingModel}

\* lines 63-67: the first of the three variables that is not empty, stripped
EnvPath ==
    Strip(IF env_vars[1] # <<>> THEN env_vars[1]
          ELSE IF env_vars[2] # <<>> THEN env_vars[2]
          ELSE env_vars[3])

\* lines 57-58
IsProbablyGguf(p) == IsFile(p) /\ EndsWith(Lower(p), GGUF)

\* lines 93-96: the names of os.listdir(d) that are model files, as paths
RECURSIVE ScanNames(_, _)
ScanNames(d, names) ==
    IF names = <<>> THEN <<>>
    ELSE (IF IsProbablyGguf(PathJoin(d, Head(names))) THEN <<PathJoin(d, Head(names))>> ELSE <<>>)
             \o ScanNames(d, Tail(names))

\* lines 89-98: the candidates of the directories k..Len(SearchDirs); a
\* directory that is missing or cannot be listed is skipped
RECURSIVE Candidates(_)
Candidates(k) ==
    IF k > Len(SearchDirs) THEN <<>>
    ELSE (IF listing[k].listable THEN ScanNames(SearchDirs[k], listing[k].names) ELSE <<>>)
             \o Candidates(k + 1)

\* the stable sort of line 103 (newest first, equal times keep their order):
\* p is put behind every path that is not older
RECURSIVE InsertByMtime(_, _)
InsertByMtime(sorted, p) ==
    IF sorted = <<>> THEN <<p>>
    ELSE IF mtimes[Head(sorted)] >= mtimes[p]
    THEN <<Head(sorted)>> \o InsertByMtime(Tail(sorted), p)
    ELSE <<p>> \o sorted

RECURSIVE SortByMtime(_, _)
SortByMtime(todo, sorted) ==
    IF todo = <<>> THEN sorted
    ELSE SortByMtime(Tail(todo), InsertByMtime(sorted, Head(todo)))

\* faulty variant: the last path of the sorted list is returned
PickOldest(sorted) == Some(sorted[Len(sorted)])

\* line 104: return candidates[0]
PickNewest(sorted) == Some(sorted[1])

\* lines 61-104: what the function returns
FoundModel ==
    IF EnvPath # <<>> /\ IsProbablyGguf(EnvPath) THEN Some(EnvPath)
    ELSE IF Candidates(1) = <<>> THEN None
    ELSE PickNewest(SortByMtime(Candidates(1), <<>>))

\* lines 61-104
FindLocalGgufModel ==
    /\ found.calls < MaxScans
    /\ found' = [calls |-> found.calls + 1, ret |-> FoundModel]
    /\ UNCHANGED <<env_vars, listing, mtimes, loaderVars, uiVars, storeVars, dlVars, chatVars, pageVars>>

\* settings of THONNY_LLAMA_MODEL, LLAMA_MODEL_PATH and LLAMA_CPP_MODEL
EnvSettings ==
    { <<<<>>, <<>>, <<>>>>,
      <<OutsideModel \o <<SP>>, <<>>, <<>>>>,
      <<<<>>, <<>>, OutsideModel>>,
      <<<<SP>>, OutsideModel, <<>>>>,
      <<ModelMissing, OutsideModel, <<>>>>,
      <<NotesTxt, <<>>, <<>>>> }

\* what os.listdir gives for the search directories, in either order
Listings ==
    { <<[listable |-> r1, names |-> n1],
        [listable |-> FALSE, names |-> <<>>],
        [listable |-> r3, names |-> <<<<"c">> \o GGUF>>]>> :
        r1 \in BOOLEAN, r3 \in BOOLEAN,
        n1 \in { << <<"a">> \o GGUF, <<"s">>, <<"n", ".", "t", "x", "t">>,
                    <<"A", ".", "G", "G", "U", "F">> >>,
                 << <<"A", ".", "G", "G", "U", "F">>, <<"n", ".", "t", "x", "t">>,
                    <<"s">>, <<"a">> \o GGUF >> } }

InitDetect ==
    /\ env_vars = <<<<>>, <<>>, <<>>>>
    /\ listing = [k \in 1..Len(SearchDirs) |-> [listable |-> FALSE, names |-> <<>>]]
    /\ mtimes = [f \in Timed |-> 1]
    /\ found = [calls |-> 0, ret |-> None]

\* ------------------------------------------------------------------------
\* PydanticAIAssistant.complete_chat
\* ------------------------------------------------------------------------
\* number of items a completion stream delivers at most
MaxStream == 2

\* ChatResponseChunk(text, is_final, is_interal_error); a text is the tuple of
\* the pieces an f-string puts together, "" is the empty tuple
Chunk(text, final, err) == [text |-> text, final |-> final, err |-> err]

\* str(e) of an exception raised while a completion is built or streamed
ChatErrors == {"", "connection reset"}

\* a call of complete_chat that has not started
NoChat ==
    [pc |-> "idle", messages |-> FALSE, backend |-> "api", path |-> <<>>, llm |-> None,
     route |-> "none",
     items |-> 0, raised |-> None, chunks |-> <<>>, cancels |-> 0, cancel_pc |-> "none"]

\* faulty variant: the file test of line 333 is forgotten
PrefersLocalNoFileCheck(backend, p) == backend = "local" /\ p # <<>>

\* line 333: "backend == "local" and llama_path and os.path.isfile(llama_path)"
PrefersLocal(backend, p) == backend = "local" /\ p # <<>> /\ IsFile(p)

\* faulty variant: the chunk of the except clause is not marked
LocalErrorUnmarked(e) ==
    Chunk(<<"Error: ", e, ". See frontend.log for details.">>, TRUE, FALSE)

\* lines 352-356
LocalError(e) ==
    Chunk(<<"Error: ", e, ". See frontend.log for details.">>, TRUE, TRUE)

\* faulty variant: a stream that ends gives no chunk
EndOfStreamSilent == <<>>

\* lines 349 and 410: yield ChatResponseChunk("", is_final=True)
EndOfStream == <<Chunk(<<>>, TRUE, FALSE)>>

\* lines 325-333: an empty conversation gives one final chunk; else the
\* options are read and the path of the call is chosen
CompleteChatStart(has_messages, backend, p) ==
    /\ chat.pc = "idle"
    /\ chat' = IF ~has_messages
               THEN [chat EXCEPT !.pc = "done", !.chunks = <<Chunk(<<>>, TRUE, FALSE)>>]
               ELSE [chat EXCEPT !.messages = TRUE,
                                 !.backend = backend,
                                 !.path = Strip(p),
                                 !.pc = IF PrefersLocal(backend, Strip(p))
                                        THEN "l334" ELSE "l373"]
    /\ UNCHANGED <<ready, conv, loaderVars, uiVars, storeVars, dlVars, detectVars, pageVars>>

\* line 334: llm = _get_llama_model(), the call
CompleteChatAsksModel ==
    /\ chat.pc = "l334"
    /\ \/ GetLlamaModelLock
       \/ GetLlamaModelReturn

\* lines 334-335 and 358: the value returned decides between the local
\* completion and the messages about a model that is not there
CompleteChatGotModel ==
    /\ chat.pc = "l334"
    /\ ui_pc = "ret"
    /\ ui_pc' = "idle"
    /\ ui_llm' = None
    /\ chat' = [chat EXCEPT !.llm = ui_llm,
                            !.pc = IF ui_llm # None THEN "l337" ELSE "l358"]
    /\ UNCHANGED <<ready, conv, loaderVars, storeVars, dlVars, detectVars, pageVars>>

\* lines 337-343: the messages are built and the stream is opened, or an
\* exception is raised and lines 350-356 yield the error chunk
CompleteChatLocalOpen ==
    /\ chat.pc = "l337"
    /\ \/ chat' = [chat EXCEPT !.pc = "l344", !.route = "local"]
       \/ \E e \in ChatErrors :
            chat' = [chat EXCEPT !.pc = "done", !.route = "local", !.raised = Some(e),
                                 !.chunks = Append(chat.chunks, LocalError(e))]
    /\ UNCHANGED <<ready, conv, loaderVars, uiVars, storeVars, dlVars, detectVars, pageVars>>

\* lines 344-357, one item of the stream: a delta with or without content,
\* the end of the stream, or an exception
CompleteChatLocalNext ==
    /\ chat.pc = "l344"
    /\ \/ /\ chat.items < MaxStream
          /\ \E content \in {<<>>, <<"tok">>} :
               chat' = [chat EXCEPT !.items = chat.items + 1,
                                    !.chunks = IF content # <<>>
                                               THEN Append(chat.chunks, Chunk(content, FALSE, FALSE))
                                               ELSE chat.chunks]
       \/ chat' = [chat EXCEPT !.pc = "done", !.chunks = chat.chunks \o EndOfStream]
       \/ \E e \in ChatErrors :
            chat' = [chat EXCEPT !.pc = "done", !.raised = Some(e),
                                 !.chunks = Append(chat.chunks, LocalError(e))]
    /\ UNCHANGED <<ready, conv, loaderVars, uiVars, storeVars, dlVars, detectVars, pageVars>>

\* lines 358-370: _llama_load_error is read (without the lock); one final
\* chunk says that the model failed to load or is still loading
CompleteChatNotReady ==
    /\ chat.pc = "l358"
    /\ chat' = [chat EXCEPT
                  !.pc = "done",
                  !.chunks = Append(chat.chunks,
                      IF llama_load_error # None /\ llama_load_error[1] # ""
                      THEN Chunk(<<"Model failed to load: ", llama_load_error[1]>>, TRUE, TRUE)
                      ELSE Chunk(<<"Model is still loading. Try again in a moment.">>,
                                 TRUE, TRUE))]
    /\ UNCHANGED <<ready, conv, loaderVars, uiVars, storeVars, dlVars, detectVars, pageVars>>

\* lines 373-381: _get_agent() returns the agent or raises
CompleteChatGetAgent ==
    /\ chat.pc = "l373"
    /\ \/ chat' = [chat EXCEPT !.pc = "l399", !.route = "remote"]
       \/ \E e \in ChatErrors :
            chat' = [chat EXCEPT
                       !.pc = "done", !.route = "remote", !.raised = Some(e),
                       !.chunks = Append(chat.chunks,
                           Chunk(<<"Setup error: ", e,
                                   ". Install with: pip install pydantic-ai openai">>,
                                 TRUE, TRUE))]
    /\ UNCHANGED <<ready, conv, loaderVars, uiVars, storeVars, dlVars, detectVars, pageVars>>

\* lines 383-417, one item of result.stream_text(): a text with or without
\* content, the end of the stream, or an exception of the run
CompleteChatRemoteNext ==
    /\ chat.pc = "l399"
    /\ \/ /\ chat.items < MaxStream
          /\ \E content \in {<<>>, <<"tok">>} :
               chat' = [chat EXCEPT !.items = chat.items + 1,
                                    !.chunks = IF content # <<>>
                                               THEN Append(chat.chunks, Chunk(content, FALSE, FALSE))
                                               ELSE chat.chunks]
       \/ chat' = [chat EXCEPT !.pc = "done", !.chunks = chat.chunks \o EndOfStream]
       \/ \E e \in ChatErrors :
            chat' = [chat EXCEPT
                       !.pc = "done", !.raised = Some(e),
                       !.chunks = Append(chat.chunks,
                           Chunk(<<"Error: ", e, ". Check your model and API key or base URL.">>,
                                 TRUE, TRUE))]
    /\ UNCHANGED <<ready, conv, loaderVars, uiVars, storeVars, dlVars, detectVars, pageVars>>

CompleteChat ==
    \/ \E m \in BOOLEAN, b \in {"api", "local"}, p \in PathOptions : CompleteChatStart(m, b, p)
    \/ CompleteChatAsksModel
    \/ CompleteChatGotModel
    \/ CompleteChatLocalOpen
    \/ CompleteChatLocalNext
    \/ CompleteChatNotReady
    \/ CompleteChatGetAgent
    \/ CompleteChatRemoteNext

\* ------------------------------------------------------------------------
\* PydanticAIAssistant.cancel_completion
\* ------------------------------------------------------------------------
\* calls of cancel_completion in one run
MaxCancels == 1

\* faulty variant: the call ends the completion that is running
CancelEffectStops(c) == IF c.pc \in {"idle", "done"} THEN c ELSE [c EXCEPT !.pc = "done"]

\* line 421: pass
CancelEffect(c) == c

\* lines 419-421, called from the UI at any point of a completion; cancels
\* counts the calls and cancel_pc is where the completion was at the last one
CancelCompletion ==
    /\ chat.cancels < MaxCancels
    /\ chat' = [CancelEffect(chat) EXCEPT !.cancels = chat.cancels + 1,
                                          !.cancel_pc = chat.pc]
    /\ UNCHANGED <<ready, conv, loaderVars, uiVars, storeVars, dlVars, detectVars, pageVars>>

\* ------------------------------------------------------------------------
\* PydanticAIAssistant.get_ready
\* ------------------------------------------------------------------------
\* a call of get_ready that has not started, with the stored API key and the
\* Base URL option; key0 and url0 are what the call found when it started
NoReady ==
    [pc |-> "idle", backend |-> "api", path |-> <<>>, api_key |-> None, base_url |-> <<>>,
     key0 |-> None, url0 |-> <<>>, llm |-> None, err |-> None, dialogs |-> 0,
     boxes |-> <<>>, ret |-> None]

\* faulty variant: any stored value counts as a credential
HasCredentialAlways(key) == TRUE

\* "api_key" as a condition: a key that is neither None nor ""
HasCredential(key) == key # None /\ key[1] # ""

\* messagebox.showerror / messagebox.showinfo
Box(kind, title, text) == [kind |-> kind, title |-> title, text |-> text]

\* lines 274-277, 282-284 and 302-311: the backend decides what is tested
\* first; a local backend without model path and Base URL ends the call
GetReadyStart(backend, p) ==
    /\ ready.pc = "idle"
    /\ LET r == [ready EXCEPT !.backend = backend, !.key0 = ready.api_key,
                              !.url0 = ready.base_url]
       IN  ready' =
             IF backend = "api"
             THEN IF ~HasCredential(ready.api_key) /\ Strip(ready.base_url) = <<>>
                  THEN [r EXCEPT !.pc = "l278"]
                  ELSE [r EXCEPT !.pc = "l313"]
             ELSE IF Strip(p) # <<>>
             THEN [r EXCEPT !.pc = "l285", !.path = Strip(p)]
             ELSE IF Strip(ready.base_url) = <<>>
             THEN [r EXCEPT !.pc = "done", !.ret = Some(FALSE),
                            !.boxes = Append(ready.boxes,
                                Box("error", "Local backend", Some("Set a model path or Base URL")))]
             ELSE [r EXCEPT !.pc = "l313"]
    /\ UNCHANGED <<chat, conv, loaderVars, uiVars, storeVars, dlVars, detectVars, pageVars>>

\* lines 278-281: the configuration dialog is shown; the user stores a key or
\* a Base URL or neither; without a key the call returns False
GetReadyDialog ==
    /\ ready.pc = "l278"
    /\ \E key \in {ready.api_key, Some("sk-1")},
          url \in {ready.base_url, <<"h", "t", "t", "p", ":", "/", "/", "l">>} :
         ready' = IF HasCredential(key)
                  THEN [ready EXCEPT !.dialogs = ready.dialogs + 1, !.api_key = key,
                                     !.base_url = url, !.pc = "l313"]
                  ELSE [ready EXCEPT !.dialogs = ready.dialogs + 1, !.api_key = key,
                                     !.base_url = url, !.pc = "done", !.ret = Some(FALSE)]
    /\ UNCHANGED <<chat, conv, loaderVars, uiVars, storeVars, dlVars, detectVars, pageVars>>

\* line 285: llm = _get_llama_model(), the call
GetReadyAsksModel ==
    /\ ready.pc = "l285"
    /\ \/ GetLlamaModelLock
       \/ GetLlamaModelReturn

\* lines 285-286 and 293-301: the returned value and _llama_load_error (read
\* without the lock) decide: True with a handle, the error box for an error,
\* else the box that says the model is still loading
GetReadyGotModel ==
    /\ ready.pc = "l285"
    /\ ui_pc = "ret"
    /\ ui_pc' = "idle"
    /\ ui_llm' = None
    /\ LET r == [ready EXCEPT !.llm = ui_llm, !.err = llama_load_error]
       IN  ready' =
             IF ui_llm = None /\ llama_load_error # None /\ llama_load_error[1] # ""
             THEN [r EXCEPT !.pc = "l287"]
             ELSE IF ui_llm = None
             THEN [r EXCEPT !.pc = "done", !.ret = Some(FALSE),
                            !.boxes = Append(ready.boxes,
                                Box("info", "Model loading",
                                    Some("Local model is still loading. Try again in a moment.")))]
             ELSE [r EXCEPT !.pc = "done", !.ret = Some(TRUE)]
    /\ UNCHANGED <<chat, conv, loaderVars, storeVars, dlVars, detectVars, pageVars>>

\* lines 287-292: _llama_load_error is read again for the text of the box
GetReadyShowFailed ==
    /\ ready.pc = "l287"
    /\ ready' = [ready EXCEPT !.pc = "done", !.ret = Some(FALSE),
                              !.boxes = Append(ready.boxes,
                                  Box("error", "llama-cpp-python model failed to load",
                                      llama_load_error))]
    /\ UNCHANGED <<chat, conv, loaderVars, uiVars, storeVars, dlVars, detectVars, pageVars>>

\* lines 312-322: _get_agent() raises and the error is shown, or True
GetReadyAgent ==
    /\ ready.pc = "l313"
    /\ \/ ready' = [ready EXCEPT !.pc = "done", !.ret = Some(TRUE)]
       \/ \E e \in ChatErrors :
            ready' = [ready EXCEPT !.pc = "done", !.ret = Some(FALSE),
                                   !.boxes = Append(ready.boxes,
                                       Box("error", "Pydantic AI", Some(e)))]
    /\ UNCHANGED <<chat, conv, loaderVars, uiVars, storeVars, dlVars, detectVars, pageVars>>

GetReady ==
    \/ \E b \in {"api", "local"}, p \in {<<>>, <<SP>>, ModelA, ModelMissing} : GetReadyStart(b, p)
    \/ GetReadyDialog
    \/ GetReadyAsksModel
    \/ GetReadyGotModel
    \/ GetReadyShowFailed
    \/ GetReadyAgent

InitChat ==
    /\ chat = NoChat
    /\ ready = NoReady

\* ------------------------------------------------------------------------
\* _messages_to_llama_chat
\* ------------------------------------------------------------------------
\* longest conversation
MaxMsgs == 3

\* Assistant.format_message(msg): the text of the message as the assistant
\* presents it, which is not the bare content
FormatMessage(msg) == <<"formatted:">> \o msg.content

\* faulty variant: the role of a message is passed on as it is
LlamaRoleKept(role) == role

\* line 263: role = msg.role if msg.role in ("user", "assistant", "system") else "user"
LlamaRole(role) == IF role \in {"user", "assistant", "system"} THEN role ELSE "user"

\* lines 260-264: the entry of one message; "msg.content or ''" is the content
LlamaEntry(msg) ==
    [role |-> LlamaRole(msg.role),
     content |-> IF msg.role = "user" THEN FormatMessage(msg) ELSE msg.content]

\* lines 266-268: the git context in front of the content of a last entry
\* with the role user
WithGitContext(entries, git_info) ==
    IF git_info # <<>> /\ entries # <<>> /\ entries[Len(entries)].role = "user"
    THEN [entries EXCEPT ![Len(entries)].content =
              <<"Current git context:\n">> \o git_info \o <<"\n\n---\n\n">> \o @]
    ELSE entries

\* lines 251-269
MessagesToLlamaChat ==
    /\ conv.out = None
    /\ conv' = [conv EXCEPT !.out =
           Some(WithGitContext(
               (IF conv.instructions # <<>>
                THEN <<[role |-> "system", content |-> conv.instructions]>>
                ELSE <<>>)
                   \o [k \in 1..Len(conv.messages) |-> LlamaEntry(conv.messages[k])],
               conv.git_info))]
    /\ UNCHANGED <<chat, ready, loaderVars, uiVars, storeVars, dlVars, detectVars, pageVars>>

\* ------------------------------------------------------------------------
\* _build_message_history and the history of complete_chat
\* ------------------------------------------------------------------------
\* message_history has not been computed
NoHistory == [built |-> FALSE, value |-> None, fail |-> "none", raised |-> FALSE]

\* what can fail: the import of pydantic_ai.messages (line 429), the loop
\* over the messages (lines 439-449), _get_system_instructions (line 391)
HistoryFailures == {"none", "import", "loop", "instructions"}

\* faulty variant: an assistant message with no content is kept
InHistoryAnyAssistant(msg) == msg.role \in {"user", "assistant"}

\* lines 440 and 447: "msg.role == "user"", "msg.role == "assistant" and msg.content"
InHistory(msg) ==
    msg.role = "user" \/ (msg.role = "assistant" /\ msg.content # <<>>)

\* lines 441-448: ModelRequest with a UserPromptPart and the instructions, or
\* ModelResponse with a TextPart
HistoryEntry(msg, instructions) ==
    IF msg.role = "user"
    THEN [kind |-> "request", content |-> msg.content, instructions |-> instructions]
    ELSE [kind |-> "response", content |-> msg.content, instructions |-> <<>>]

\* lines 424-453: None when the import or the loop fails and for an empty
\* list, else the list
BuildMessageHistory(messages, instructions, fail) ==
    IF fail \in {"import", "loop"} THEN None
    ELSE LET kept == SelectSeq(messages, InHistory)
             out == [k \in 1..Len(kept) |-> HistoryEntry(kept[k], instructions)]
         IN  IF out # <<>> THEN Some(out) ELSE None

\* lines 387-395 of complete_chat, reached with at least one message:
\* message_history is None for a single message, else what
\* _build_message_history gives for the messages before the last; an
\* exception of the call is caught and logged
CompleteChatHistory ==
    /\ ~conv.history.built
    /\ Len(conv.messages) >= 1
    /\ \E fail \in HistoryFailures :
         /\ fail # "none" => Len(conv.messages) > 1
         /\ conv' = [conv EXCEPT !.history =
               [built |-> TRUE,
                fail |-> fail,
                raised |-> FALSE,
                value |-> IF Len(conv.messages) > 1 /\ fail # "instructions"
                          THEN BuildMessageHistory(
                                   SubSeq(conv.messages, 1, Len(conv.messages) - 1),
                                   conv.instructions, fail)
                          ELSE None]]
    /\ UNCHANGED <<chat, ready, loaderVars, uiVars, storeVars, dlVars, detectVars, pageVars>>

\* messages of a conversation: a role, also one the model does not know, and
\* a content that may be empty
ChatMessages ==
    [role : {"user", "assistant", "system", "tool"}, content : {<<>>, <<"hi">>}]

Conversations == UNION {[1..n -> ChatMessages] : n \in 0..MaxMsgs}

InitConv ==
    conv = [instructions |-> <<>>, messages |-> <<>>, git_info |-> <<>>, out |-> None,
            history |-> NoHistory]

\* ------------------------------------------------------------------------
\* llama_download.download_model
\* ------------------------------------------------------------------------
\* lines 150-153: "filename = output_filename or hf_file", made to end in .gguf
ModelFilename(hf_file, output_filename) ==
    LET filename == IF output_filename # None /\ output_filename[1] # <<>>
                    THEN output_filename[1] ELSE hf_file
    IN  IF EndsWith(Lower(filename), GGUF) THEN filename ELSE filename \o GGUF

\* line 154
DestPath(hf_file, output_filename) ==
    PathJoin(ModelsDir, ModelFilename(hf_file, output_filename))

\* the hf_file and output_filename arguments: all of them name the destination
HfFiles == {<<"b">>, <<"b">> \o GGUF, <<"q">>}
OutputFilenames == {None, Some(<<>>), Some(<<"b">>)}

\* faulty variant: an installed model gives no path
InstalledReturnNone(dest) == None

\* line 156: return dest_path
InstalledReturn(dest) == Some(dest)

\* lines 149-158: the destination is computed; an existing destination is
\* returned unless force, else download_file is called (lines 95-98)
DownloadModelCall(hf_file, output_filename, force, cb) ==
    LET dest == DestPath(hf_file, output_filename)
    IN  /\ dest = Dest
        /\ dl.pc \in {"idle", "done"}
        /\ dl.mpc # "l158"
        /\ dl_prev' = IF dl.pc = "done" THEN Summary(dl) ELSE dl_prev
        /\ dl' = IF IsFile(dest) /\ ~force
                 THEN [NoDownload EXCEPT !.pc = "done", !.force = force, !.cb = cb,
                                         !.existed = TRUE, !.mpc = "done",
                                         !.mdest = dest, !.mret = InstalledReturn(dest)]
                 ELSE IF SkipsExisting(dest, force)
                 THEN [NoDownload EXCEPT !.pc = "done", !.force = force, !.cb = cb,
                                         !.existed = TRUE, !.ret = Some(FALSE),
                                         !.mpc = "l158", !.mdest = dest]
                 ELSE [NoDownload EXCEPT !.pc = "l100", !.force = force, !.cb = cb,
                                         !.existed = IsFile(dest),
                                         !.mpc = "l158", !.mdest = dest]

\* a call made from outside the settings page (download_recommended_model,
\* lines 126-135, passes its arguments on)
DownloadModelStart(hf_file, output_filename, force, cb) ==
    /\ page.pc = "idle"
    /\ page.wpc \in {"none", "done"}
    /\ DownloadModelCall(hf_file, output_filename, force, cb)
    /\ UNCHANGED <<fdata, loaderVars, uiVars, storeVars, detectVars, chatVars, pageVars>>

\* lines 158-159: download_file has returned, return dest_path; or it has
\* raised and the exception leaves download_model
DownloadModelReturn ==
    /\ dl.pc = "done"
    /\ dl.mpc = "l158"
    /\ dl' = [dl EXCEPT !.mpc = "done",
                        !.mret = IF dl.raised THEN None ELSE Some(dl.mdest)]
    /\ UNCHANGED <<fdata, dl_prev, loaderVars, uiVars, storeVars, detectVars, chatVars,
                   pageVars>>

\* ------------------------------------------------------------------------
\* PydanticAIConfigPage._run_download
\* ------------------------------------------------------------------------
\* download flows started from the settings page in one run
MaxRuns == 2

\* the options and the secret of the workbench; ensured says that the
\* handler of WorkbenchReady has run, backend0 and model_path0 what it found
NoCfg ==
    [backend |-> "api", base_url |-> <<>>, model_path |-> <<>>, api_key |-> None,
     ensured |-> FALSE, backend0 |-> "api", model_path0 |-> <<>>]

\* no flow has run: pc is where the UI thread is, wpc where the worker thread
\* is, result the list shared by both
NoPage ==
    [pc |-> "idle", wpc |-> "none", result |-> <<>>, failed |-> FALSE,
     err |-> <<>>, box |-> None, runs |-> 0]

\* "sub in s" of two strings
Contains(sub, str) ==
    \E i \in 0..(Len(str) - Len(sub)) : SubSeq(str, i + 1, i + Len(sub)) = sub

\* str(e) of the exceptions of a download
DownloadErrors == {<<>>, <<"t", "o">>, <<"S", "S", "L">>}

UnknownError == <<"U", "n", "k", "n", "o", "w", "n", " ", "e", "r", "r", "o", "r">>

\* truth value of an entry of the list: None and "" are false
Truthy(v) == v # None /\ v[1] # <<>>

\* faulty variant: the text is read without a look at the length of the list
ErrorTextUnguarded(result) == result[2][1]

\* line 727: "result[1] if len(result) > 1 else tr("Unknown error")"
ErrorText(result) == IF Len(result) > 1 THEN result[2][1] ELSE UnknownError

\* lines 728-743: the text shown for an error
ErrorShown(err) ==
    IF Contains(<<"S", "S", "L">>, err)
       \/ Contains(<<"C", "E", "R", "T", "I", "F", "I", "C", "A", "T", "E">>, err)
    THEN <<"SSL certificate verification failed.", "\n\n", "Original error:", " ">> \o err
    ELSE err

\* lines 676-678 and 746-750: a new result list, the worker thread is started
\* and check_done is scheduled
RunDownload ==
    /\ page.pc = "idle"
    /\ page.wpc \in {"none", "done"}
    /\ page.runs < MaxRuns
    /\ page' = [NoPage EXCEPT !.pc = "poll", !.wpc = "start", !.runs = page.runs + 1]
    /\ UNCHANGED <<cfg, loaderVars, uiVars, storeVars, dlVars, detectVars, chatVars>>

\* line 687: the worker calls download_model(hf_repo, hf_file, force=False,
\* progress_callback=progress)
RunDownloadCall ==
    /\ page.wpc = "start"
    /\ \E hf_file \in HfFiles : DownloadModelCall(hf_file, None, FALSE, TRUE)
    /\ page' = [page EXCEPT !.wpc = "l687"]
    /\ UNCHANGED <<fdata, cfg, loaderVars, uiVars, storeVars, detectVars, chatVars>>

\* lines 690-692: result.append(path), or the exception is caught and
\* result.append(None)
RunDownloadAppend ==
    /\ page.wpc = "l687"
    /\ dl.mpc = "done"
    /\ \/ /\ ~dl.raised
          /\ page' = [page EXCEPT !.wpc = "done",
                                  !.result = Append(page.result, dl.mret)]
       \/ /\ dl.raised
          /\ \E e \in DownloadErrors :
               page' = [page EXCEPT !.wpc = "l693", !.failed = TRUE, !.err = e,
                                    !.result = Append(page.result, None)]
    /\ UNCHANGED <<cfg, loaderVars, uiVars, storeVars, dlVars, detectVars, chatVars>>

\* line 693: result.append(str(e))
RunDownloadAppendError ==
    /\ page.wpc = "l693"
    /\ page' = [page EXCEPT !.wpc = "done",
                            !.result = Append(page.result, Some(page.err))]
    /\ UNCHANGED <<cfg, loaderVars, uiVars, storeVars, dlVars, detectVars, chatVars>>

\* lines 700-708: check_done finds the list non-empty and goes on (an empty
\* list schedules the next check_done and changes nothing)
CheckDonePoll ==
    /\ page.pc = "poll"
    /\ page.result # <<>>
    /\ page' = [page EXCEPT !.pc = "l709"]
    /\ UNCHANGED <<cfg, loaderVars, uiVars, storeVars, dlVars, detectVars, chatVars>>

\* lines 709-744: a path is stored as the model path, the backend is set to
\* local and "Download complete" is shown; else "Download failed" is shown
CheckDoneReport ==
    /\ page.pc = "l709"
    /\ IF Truthy(page.result[1])
       THEN /\ cfg' = [cfg EXCEPT !.model_path = page.result[1][1], !.backend = "local"]
            /\ page' = [page EXCEPT
                          !.pc = "idle",
                          !.box = Some(Box("info", "Download complete",
                                           <<"Model installed.">>))]
       ELSE /\ cfg' = cfg
            /\ page' = [page EXCEPT
                          !.pc = "idle",
                          !.box = Some(Box("error", "Download failed",
                                           ErrorShown(ErrorText(page.result))))]
    /\ UNCHANGED <<loaderVars, uiVars, storeVars, dlVars, detectVars, chatVars>>

RunDownloadFlow ==
    \/ RunDownload
    \/ RunDownloadCall
    \/ RunDownloadAppend
    \/ RunDownloadAppendError
    \/ CheckDonePoll
    \/ CheckDoneReport

InitPage == page = NoPage /\ cfg = NoCfg

\* ------------------------------------------------------------------------
\* _ensure_local_model_configured
\* ------------------------------------------------------------------------
\* faulty variant: a stored API key is not looked at
NoApiKeyAssumed(key) == TRUE

\* "not api_key": no key is stored, or an empty one
NoApiKey(key) == ~Truthy(key)

\* lines 131-132
ShouldTry(backend, key) ==
    backend = "local" \/ (backend = "api" /\ NoApiKey(key))

\* lines 107-140, with the call of _find_local_gguf_model of line 135
EnsureLocalModelConfigured ==
    /\ ~cfg.ensured
    /\ LET base_url == Strip(cfg.base_url)
           existing0 == Strip(cfg.model_path)
           clears == existing0 # <<>> /\ ~IsFile(existing0)
           existing == IF clears THEN <<>> ELSE existing0
           seen == [cfg EXCEPT !.ensured = TRUE, !.backend0 = cfg.backend,
                                !.model_path0 = cfg.model_path]
           cleared == IF clears THEN [seen EXCEPT !.model_path = <<>>] ELSE seen
       IN  IF base_url # <<>>
           THEN /\ cfg' = seen
                /\ found' = found
           ELSE IF existing # <<>> \/ ~ShouldTry(cfg.backend, cfg.api_key)
           THEN /\ cfg' = cleared
                /\ found' = found
           ELSE /\ found' = [calls |-> found.calls + 1, ret |-> FoundModel]
                /\ cfg' = IF ~Truthy(FoundModel)
                          THEN cleared
                          ELSE [cleared EXCEPT
                                  !.model_path = FoundModel[1],
                                  !.backend = IF cfg.backend # "local" /\ NoApiKey(cfg.api_key)
                                              THEN "local" ELSE cfg.backend]
    /\ UNCHANGED <<page, env_vars, listing, mtimes, loaderVars, uiVars, storeVars, dlVars,
                   chatVars>>

InitRest == InitDl /\ InitDetect /\ InitChat /\ InitConv /\ InitPage

\* ------------------------------------------------------------------------
\* Specification of the loader
\* ------------------------------------------------------------------------
InitLoader ==
    /\ llama_instance = None
    /\ llama_load_error = None
    /\ llama_loading = Free
    /\ llama_cpp_installed \in BOOLEAN
    /\ pc = [i \in Loads |-> "idle"]
    /\ path = [i \in Loads |-> <<>>]
    /\ n_ctx_opt = [i \in Loads |-> PyNone]
    /\ n_ctx = [i \in Loads |-> 0]
    /\ exc = [i \in Loads |-> None]
    /\ events = <<>>

InitUi ==
    /\ ui_pc = "idle"
    /\ ui_llm = None

InitStore ==
    /\ files = DiskFiles
    /\ cwd = UserDir
    /\ del_call = NoCall

Init == InitLoader /\ InitUi /\ InitStore /\ InitRest

Next ==
    \/ \E i \in Loads : StartLlamaPreload(i)
    \/ \E i \in Loads : PreloadLlamaModel(i, PathOptions, CtxOptions)
    \/ GetLlamaModelLock
    \/ GetLlamaModelReturn
    \/ GetLlamaModelDone

Spec == Init /\ [][Next]_vars

\* ------------------------------------------------------------------------
\* Specification of loads and readers that keep running: a started load
\* thread takes its next step (the import and the constructor return or
\* raise), a thread that waits for the lock enters when the lock is free again
\* and again, and a reader inside its with block returns
\* ------------------------------------------------------------------------
LivePaths == {ModelA, ModelMissing}

LiveCtxs == {PyInt(8192)}

NextLive ==
    \/ \E i \in Loads : StartLlamaPreload(i)
    \/ \E i \in Loads : PreloadLlamaModel(i, LivePaths, LiveCtxs)
    \/ GetLlamaModelLock
    \/ GetLlamaModelReturn
    \/ GetLlamaModelDone

SpecLive ==
    /\ Init
    /\ [][NextLive]_vars
    /\ \A i \in Loads : SF_vars(PreloadLlamaModel(i, LivePaths, LiveCtxs))
    /\ WF_vars(GetLlamaModelReturn)

\* ------------------------------------------------------------------------
\* Specification of one load over many values of the n_ctx option
\* ------------------------------------------------------------------------
\* longest str value of the option that is enumerated
MaxCtxStr == 3

CtxChars == {"-", "7", "0", "a", " "}

CtxStrings == UNION {[1..k -> CtxChars] : k \in 0..MaxCtxStr}

\* values of LLAMA_N_CTX_OPTION: ints around the limits, None, short strings
\* and some longer literals
CtxInputs ==
    {PyInt(v) : v \in {-5, 0, 1, 511, 512, 513, 4096, 65535, 65536, 65537, 999999}}
        \cup {PyNone}
        \cup {PyStr(str) : str \in CtxStrings}
        \cup {PyStr(<<"a", "b", "c">>),
              PyStr(<<"9", "9", "9", "9", "9", "9">>),
              PyStr(<<" ", "4", "0", "9", "6", " ">>),
              PyStr(<<"6", "5", "5", "3", "7">>)}

NextCtx ==
    \/ StartLlamaPreload(1)
    \/ PreloadLlamaModel(1, {ModelA}, CtxInputs)

SpecCtx == Init /\ [][NextCtx]_vars

\* ------------------------------------------------------------------------
\* Specification of the model store
\* ------------------------------------------------------------------------
\* directories written in front of a file name by a caller of delete_model
DeleteDirs ==
    { <<>>,
      DotDot,
      <<"m", "o", "d", "e", "l", "s">>,
      UserDir,
      ModelsDir,
      ModelsDir \o <<SLASH>>,
      PathJoin(ModelsDir, DotDot),
      PathJoin(PathJoin(ModelsDir, DotDot), <<"m", "o", "d", "e", "l", "s", "2">>),
      PathJoin(ModelsDir, <<"s">>),
      PathJoin(PathJoin(ModelsDir, <<"s">>), DotDot),
      SiblingDir,
      <<SLASH>> \o ModelsDir }

DeleteNames ==
    { <<"a">> \o GGUF,
      <<"A", ".", "G", "G", "U", "F">>,
      <<"n", ".", "t", "x", "t">>,
      <<"x">> \o GGUF,
      <<"c">> \o GGUF,
      <<"d">> \o GGUF }

\* arguments of delete_model
DeleteInputs ==
    DeleteDirs \cup {PathJoin(d, n) : d \in DeleteDirs, n \in DeleteNames}

\* current directories of the process
Cwds == {UserDir, ModelsDir}

InitStoreSpec ==
    /\ InitLoader
    /\ InitUi
    /\ files = DiskFiles
    /\ cwd \in Cwds
    /\ del_call = NoCall
    /\ InitRest

NextStore == \E arg \in DeleteInputs : DeleteModel(arg)

SpecStore == InitStoreSpec /\ [][NextStore]_vars

\* ------------------------------------------------------------------------
\* Specification of the downloads
\* ------------------------------------------------------------------------
\* the destination is on disk before the first call or it is not
InitDownload ==
    /\ InitLoader
    /\ InitUi
    /\ \/ files = DiskFiles /\ fdata = Absent
       \/ files = DiskFiles \cup {Dest} /\ fdata = OnDisk
    /\ cwd = UserDir
    /\ del_call = NoCall
    /\ dl = NoDownload
    /\ dl_prev = NoSummary
    /\ InitPage
    /\ InitDetect
    /\ InitChat
    /\ InitConv

NextDownload == DownloadFile

SpecDownload == InitDownload /\ [][NextDownload]_vars

\* ------------------------------------------------------------------------
\* Specification of the detection of a local model
\* ------------------------------------------------------------------------
\* any setting of the three variables, any listing, any modification times
InitDetectSpec ==
    /\ InitLoader
    /\ InitUi
    /\ InitStore
    /\ InitDl
    /\ InitPage
    /\ env_vars \in EnvSettings
    /\ listing \in Listings
    /\ mtimes \in [Timed -> 1..MaxTime]
    /\ found = [calls |-> 0, ret |-> None]
    /\ InitChat
    /\ InitConv

NextDetect == FindLocalGgufModel

SpecDetect == InitDetectSpec /\ [][NextDetect]_vars

\* ------------------------------------------------------------------------
\* Specification of the downloads of models: the flow of the settings page,
\* forced calls of download_model from elsewhere, and the deletion of the model;
\* the dialog of a flow is modal, so the other calls are made between flows;
\* the responses have a body of MaxBody with or without its Content-Length
\* ------------------------------------------------------------------------
InitModel ==
    /\ InitLoader
    /\ InitUi
    /\ \/ files = DiskFiles /\ fdata = Absent
       \/ files = DiskFiles \cup {Dest} /\ fdata = OnDisk
    /\ cwd = UserDir
    /\ del_call = NoCall
    /\ dl = NoDownload
    /\ dl_prev = NoSummary
    /\ InitPage
    /\ InitDetect
    /\ InitChat
    /\ InitConv

NextModel ==
    \/ RunDownloadFlow
    \/ \E hf_file \in HfFiles, out \in OutputFilenames :
         DownloadModelStart(hf_file, out, TRUE, FALSE)
    \/ DownloadFileUrlopenOf({None, Some(<<Digits[MaxBody + 1]>>)}, {MaxBody})
    \/ DownloadFileOpenDest
    \/ DownloadFileWriteChunk
    \/ DownloadFileReadFails
    \/ DownloadFileReturn
    \/ DownloadModelReturn
    \/ /\ page.pc = "idle"
       /\ dl.pc \in {"idle", "done"}
       /\ dl.mpc # "l158"
       /\ DeleteModel(Dest)

SpecModel == InitModel /\ [][NextModel]_vars


\* ------------------------------------------------------------------------
\* Specification of the configuration at startup
\* ------------------------------------------------------------------------
\* stored values of the backend, the Base URL, the model path and the API key
StartupOptions ==
    [backend : {"api", "local"},
     base_url : {<<>>, <<SP>>, <<"h", "t", "t", "p", ":", "/", "/", "l">>},
     model_path : {<<>>, <<SP>>, ModelA, ModelA \o <<SP>>, ModelMissing},
     api_key : {None, Some(<<>>), Some(<<"s", "k">>)},
     ensured : {FALSE}, backend0 : {"api"}, model_path0 : {<<>>}]

InitStartup ==
    /\ InitLoader
    /\ InitUi
    /\ InitStore
    /\ InitDl
    /\ page = NoPage
    /\ cfg \in StartupOptions
    /\ env_vars \in {<<<<>>, <<>>, <<>>>>, <<<<>>, OutsideModel, <<>>>>}
    /\ listing \in {[k \in 1..Len(SearchDirs) |-> [listable |-> FALSE, names |-> <<>>]],
                     [k \in 1..Len(SearchDirs) |->
                         [listable |-> k = 1,
                          names |-> IF k = 1 THEN << <<"a">> \o GGUF >> ELSE <<>>]]}
    /\ mtimes = [f \in Timed |-> 1]
    /\ found = [calls |-> 0, ret |-> None]
    /\ InitChat
    /\ InitConv

NextStartup == EnsureLocalModelConfigured

SpecStartup == InitStartup /\ [][NextStartup]_vars


\* ------------------------------------------------------------------------
\* Specification of a chat completion next to one load of the model
\* ------------------------------------------------------------------------
NextChat ==
    \/ StartLlamaPreload(1)
    \/ PreloadLlamaModel(1, {ModelA}, {PyInt(8192)})
    \/ CompleteChat
    \/ CancelCompletion

SpecChat == Init /\ [][NextChat]_vars

\* the same with threads that keep running: the load thread takes its next
\* step, and the thread of the completion goes on as long as its generator is
\* consumed; a thread waiting for the lock enters when the lock stays free
SpecChatFair ==
    /\ SpecChat
    /\ WF_vars(PreloadLlamaModel(1, {ModelA}, {PyInt(8192)}))
    /\ WF_vars(CompleteChatAsksModel)
    /\ WF_vars(CompleteChatGotModel)

\* ------------------------------------------------------------------------
\* Specification of the message list for the local model
\* ------------------------------------------------------------------------
\* any instructions, conversation and git context
InitMessages ==
    /\ InitLoader
    /\ InitUi
    /\ InitStore
    /\ InitDl
    /\ InitPage
    /\ InitDetect
    /\ InitChat
    /\ conv \in [instructions : {<<>>, <<"Be brief.">>},
                 messages : Conversations,
                 git_info : {<<>>, <<"On branch main">>},
                 out : {None},
                 history : {NoHistory}]

NextMessages ==
    \/ MessagesToLlamaChat
    \/ CompleteChatHistory

SpecMessages == InitMessages /\ [][NextMessages]_vars

\* ------------------------------------------------------------------------
\* Specification of get_ready next to the loads of the model
\* ------------------------------------------------------------------------
\* a key is stored or not, the Base URL option is empty, blank or set
InitReady ==
    /\ InitLoader
    /\ InitUi
    /\ InitStore
    /\ InitDl
    /\ InitPage
    /\ InitDetect
    /\ InitConv
    /\ chat = NoChat
    /\ \E key \in {None, Some(""), Some("sk-0")},
          url \in {<<>>, <<SP>>, <<"h", "t", "t", "p", ":", "/", "/", "l">>} :
         ready = [NoReady EXCEPT !.api_key = key, !.base_url = url]

NextReady ==
    \/ \E i \in 1..2 : StartLlamaPreload(i)
    \/ \E i \in 1..2 : PreloadLlamaModel(i, {ModelA}, {PyInt(8192)})
    \/ GetReady

SpecReady == InitReady /\ [][NextReady]_vars

\* ------------------------------------------------------------------------
\* Reading the history of a run
\* ------------------------------------------------------------------------
\* thread i is inside _preload_llama_model past the path test and has not
\* returned: a load attempt in flight
LoadingPcs == {"l168", "l170", "l171", "l173", "l179", "l180", "l181", "l185", "l186", "l187"}

Loading(i) == pc[i] \in LoadingPcs

\* thread i is inside a "with _llama_loading" block
LockedPcs == {"l171", "l180", "l181", "l186", "l187"}

\* no thread is running _preload_llama_model
AllFinished == \A i \in Loads : pc[i] \in {"idle", "done"}

IsPub(e) == e.ev \in {"ready", "failed"}

IsWrite(e) == e.ev \in {"clear", "ready", "failed"}

\* the publications (line 180 / line 186), oldest first
Pubs == SelectSeq(events, IsPub)

\* the writes of the shared fields, oldest first
Writes == SelectSeq(events, IsWrite)

Has(kind, i) == \E k \in 1..Len(events) : events[k].ev = kind /\ events[k].by = i

At(kind, i) == CHOOSE k \in 1..Len(events) : events[k].ev = kind /\ events[k].by = i

Published(i) == Has("ready", i) \/ Has("failed", i)

PubAt(i) == IF Has("ready", i) THEN At("ready", i) ELSE At("failed", i)

\* the path read by thread i names a regular file
FoundModelFile(i) == path[i] # <<>> /\ path[i] \in files

\* load j was started while the load of i had not published
Overlap(i, j) ==
    /\ i < j
    /\ Has("start", j)
    /\ Published(i) => At("start", j) < PubAt(i)
    /\ FoundModelFile(i) /\ FoundModelFile(j)

\* ------------------------------------------------------------------------
\* C1
\* ------------------------------------------------------------------------
\* C1 as stated: at most one load attempt is in flight at any time.
C1_AtMostOneLoadInFlight == Cardinality({i \in Loads : Loading(i)}) <= 1

\* C1 amended: every call of _start_llama_preload starts its own load attempt,
\* so loads overlap; what is exclusive is the lock: a thread is inside a
\* "with _llama_loading" block exactly when it is the holder of the lock, so
\* at most one thread at a time reads or writes the shared fields, and the
\* loads in flight never outnumber the calls.
C1_LoadsOverlapLockExclusive ==
    /\ \A i \in Loads : pc[i] \in LockedPcs <=> llama_loading = i
    /\ ui_pc = "l147" <=> llama_loading = UiThread
    /\ Cardinality({i \in Loads : Loading(i)}) <= Cardinality({i \in Loads : Has("start", i)})

\* two loads in flight, one in its with block and the other waiting for it
C1_Witness ==
    \E i, j \in Loads :
        /\ i # j
        /\ pc[i] = "l180"
        /\ pc[j] = "l179"
        /\ llama_loading = i

\* ------------------------------------------------------------------------
\* C2
\* ------------------------------------------------------------------------
\* C2 as stated: two calls, the second before the first has completed, end
\* with exactly one publication of Ready or Failed.
C2_OnePublicationForTwoCalls ==
    (AllFinished /\ Overlap(1, 2) /\ pc[1] = "done" /\ pc[2] = "done")
        => Len(Pubs) = 1

\* C2 amended: every load attempt publishes exactly one terminal result
\* (Ready or Failed), never more and never none, so two overlapping calls
\* with a usable model path end with two publications.
C2_OnePublicationPerLoad ==
    /\ \A i \in Loads :
         Cardinality({k \in 1..Len(events) : IsPub(events[k]) /\ events[k].by = i})
             = IF (pc[i] = "done" /\ FoundModelFile(i)) \/ pc[i] \in {"l181", "l187"}
               THEN 1 ELSE 0
    /\ (AllFinished /\ Overlap(1, 2) /\ pc[1] = "done" /\ pc[2] = "done") => Len(Pubs) >= 2

\* both overlapping loads have finished and both have published
C2_Witness ==
    /\ AllFinished
    /\ Overlap(1, 2)
    /\ Len(Pubs) = 2
    /\ Pubs[1].by # Pubs[2].by

\* ------------------------------------------------------------------------
\* C3
\* ------------------------------------------------------------------------
\* C3: once every load has finished, the shared fields hold the result of the
\* load that published last, whichever load was started first.
C3_LastCompletedWins ==
    (AllFinished /\ Pubs # <<>>) =>
        LET last == Pubs[Len(Pubs)] IN
        IF last.ev = "ready"
        THEN llama_instance = Some(last.by) /\ llama_load_error = None
        ELSE llama_instance = None /\ llama_load_error = Some(last.msg)

\* the load started first published last, after the failure of the load started
\* second, and its handle is the one in place
C3_Witness ==
    /\ AllFinished
    /\ Overlap(1, 2)
    /\ Len(Pubs) = 2
    /\ Pubs[1] = Event("failed", 2, "failed to load model")
    /\ Pubs[2] = Event("ready", 1, "")
    /\ llama_instance = Some(1)
    /\ llama_load_error = None

GetLlamaModelReads == ui_pc = "l147" /\ ui_pc' = "ret"

\* C5 as stated: _get_llama_model returns none whenever a load is in flight,
\* also a load that was started when a handle was already published.
C5_NoneWhileLoading ==
    [][(GetLlamaModelReads /\ \E i \in Loads : Loading(i)) => ui_llm' = None]_vars

\* C5 amended: _get_llama_model returns the handle of the latest publication
\* when that publication is Ready, and none when nothing was published or the
\* latest publication is Failed; a load in flight changes nothing until it
\* publishes, so during a load started from Ready the previous handle is
\* returned. The lock is not held while a model is built, so the call does
\* not wait for a load.
C5_ReturnsLatestPublishedHandle ==
    /\ [][GetLlamaModelReads =>
            ui_llm' = IF Pubs # <<>> /\ Pubs[Len(Pubs)].ev = "ready"
                      THEN Some(Pubs[Len(Pubs)].by)
                      ELSE None]_vars
    /\ [](\A i \in Loads : pc[i] \in {"l168", "l173"} => llama_loading # i)

\* the handle of the first load was returned while the second load, started
\* after that handle was published, is building its model
C5_Witness ==
    /\ ui_pc = "ret"
    /\ ui_llm = Some(1)
    /\ pc[2] = "l173"
    /\ Has("ready", 1)
    /\ At("ready", 1) < At("start", 2)

\* ------------------------------------------------------------------------
\* C6
\* ------------------------------------------------------------------------
\* thread i has cleared the error (line 171) and has not yet written its result
ClearedNotPublished(i) == Has("clear", i) /\ ~Published(i)

\* C6 as stated: between the clearing of the error by a load and the
\* publication of that load's own result, the stored error is none.
C6_NoErrorUntilOwnResult ==
    \A i \in Loads : ClearedNotPublished(i) => llama_load_error = None

\* C6 amended: a load that reaches the construction of the model clears the
\* stored error first; from then on the error is none until a load publishes a
\* failure, which is this load or a load that overlaps it.
C6_ErrorClearedUntilNextFailure ==
    \A i \in Loads :
        (/\ Has("clear", i)
         /\ \A k \in 1..Len(events) : events[k].ev = "failed" => k < At("clear", i))
            => llama_load_error = None

\* the previous attempt failed, the next attempt has cleared the error and is
\* building its model
C6_Witness ==
    /\ Has("failed", 1)
    /\ pc[1] = "done"
    /\ pc[2] = "l173"
    /\ At("failed", 1) < At("start", 2)
    /\ llama_load_error = None

\* ------------------------------------------------------------------------
\* C7
\* ------------------------------------------------------------------------
\* C7: a call that finds an empty path, or a path that is not a regular file,
\* returns at line 156: the thread never enters a with block, writes neither
\* field and attempts no load.
C7_NoOpWithoutModelFile ==
    \A i \in Loads :
        ~FoundModelFile(i) =>
            /\ pc[i] \in {"idle", "l153", "done"}
            /\ ~Has("clear", i) /\ ~Has("ready", i) /\ ~Has("failed", i)
            /\ llama_loading # i

\* the second call found a path that is not a file and returned; the handle of
\* the first load is still in place
C7_Witness ==
    /\ pc[2] = "done"
    /\ path[2] = ModelMissing
    /\ pc[1] = "done"
    /\ llama_instance = Some(1)
    /\ llama_load_error = None

\* ------------------------------------------------------------------------
\* C9
\* ------------------------------------------------------------------------
\* C9 as stated: a published failure stays in place until a load attempt that
\* is started after it; so every write that follows a failure comes from a
\* thread started after that failure.
C9_FailedUntilNewAttempt ==
    \A a, b \in 1..Len(events) :
        (a < b /\ events[a].ev = "failed" /\ IsWrite(events[b]))
            => a < At("start", events[b].by)

\* C9 amended: an exception of the import or of Llama(...) is handled inside
\* the thread (a pending exception only exists on the way to line 187) and is
\* published as Failed, error = str(e) and no handle; this state stays until
\* another load attempt, one started later or one already in flight, clears
\* the error or publishes its result.
C9_FailureRecordedAndKept ==
    /\ \A i \in Loads : exc[i] # None <=> pc[i] \in {"l185", "l186", "l187"}
    /\ (llama_loading \notin Loads /\ Writes # <<>> /\ Writes[Len(Writes)].ev = "failed")
          => /\ llama_instance = None
             /\ llama_load_error = Some(Writes[Len(Writes)].msg)

\* the inference library is missing: the load has ended, its ImportError is
\* the stored error and there is no handle
C9_Witness ==
    /\ ~llama_cpp_installed
    /\ pc[1] = "done"
    /\ pc[2] = "idle"
    /\ llama_loading = Free
    /\ llama_instance = None
    /\ llama_load_error = Some(ImportErrorMsg)

\* ------------------------------------------------------------------------
\* C8
\* ------------------------------------------------------------------------
\* a str with a character that is no digit, sign or blank
NonNumeric(str) ==
    \E k \in 1..Len(str) :
        str[k] \notin {"0", "1", "2", "3", "4", "5", "6", "7", "8", "9", "-", "+", " "}

\* C8: the n_ctx a load holds from the reading of the options to the call of
\* Llama(...) lies in [512, 65536]: an int below 512 gives 512, an int above
\* 65536 gives 65536, an int in the range is kept, None and a non-numeric str
\* give 4096.
C8_ContextWindowClamped ==
    \A i \in Loads :
        pc[i] \in {"l168", "l170", "l171", "l173"} =>
            LET x == n_ctx_opt[i]
                n == n_ctx[i]
            IN  /\ n \in 512..65536
                /\ (x.t = "int" /\ x.v < 512) => n = 512
                /\ (x.t = "int" /\ x.v > 65536) => n = 65536
                /\ (x.t = "int" /\ x.v \in 512..65536) => n = x.v
                /\ x.t = "none" => n = 4096
                /\ (x.t = "str" /\ NonNumeric(x.s)) => n = 4096

\* the option holds 999999 and the load is about to call Llama with 65536
C8_Witness ==
    /\ pc[1] = "l173"
    /\ n_ctx_opt[1] = PyInt(999999)
    /\ n_ctx[1] = 65536

\* ------------------------------------------------------------------------
\* C10
\* ------------------------------------------------------------------------
\* the segments left of a path once "", "." and ".." are resolved
Resolved(p, wd) ==
    NormComps(Split(IF StartsWith(p, <<SLASH>>) THEN p ELSE PathJoin(wd, p)), <<>>, TRUE)

\* the absolute, normalized form of p is the models directory or lies below it
InsideOrEqual(p, wd) ==
    LET dir == Resolved(ModelsDir, wd)
        target == Resolved(p, wd)
    IN  /\ Len(dir) <= Len(target)
        /\ \A k \in 1..Len(dir) : target[k] = dir[k]

\* C10: delete_model of a path whose absolute, normalized form lies outside the
\* models directory returns False and removes no file.
C10_DeleteOutsideRefused ==
    /\ (del_call.ret # None /\ ~InsideOrEqual(del_call.arg, cwd)) =>
           /\ del_call.ret = Some(FALSE)
           /\ del_call.removed = {}
    /\ \A f \in DiskFiles : ~InsideOrEqual(f, cwd) => f \in files

\* a path that leaves the models directory through ".." was refused, after a
\* model inside the directory was deleted, and the file it names is still there
C10_Witness ==
    /\ del_call.arg = PathJoin(PathJoin(ModelsDir, DotDot), <<"x">> \o GGUF)
    /\ del_call.ret = Some(FALSE)
    /\ OutsideModel \in files
    /\ SiblingModel \in files
    /\ ModelA \notin files

\* ------------------------------------------------------------------------
\* C11
\* ------------------------------------------------------------------------
\* the normalized path n has the segments of the models directory in front of
\* at least one more segment
StrictlyInside(n, wd) ==
    LET dir == Split(Normpath(Abspath(ModelsDir, wd)))
        target == Split(n)
    IN  /\ Len(dir) < Len(target)
        /\ \A k \in 1..Len(dir) : target[k] = dir[k]

\* what one call of delete_model has to do in the step from files to files'
DeleteContract(arg) ==
    LET n == Normpath(Abspath(arg, cwd))
        deletable == /\ StrictlyInside(n, cwd)
                     /\ EndsWith(Lower(n), GGUF)
                     /\ n \in files
    IN  /\ del_call'.ret = Some(deletable)
        /\ files' = IF deletable THEN files \ {n} ELSE files

\* C11: delete_model(P) returns True exactly when the normalized P lies
\* strictly inside the models directory, ends with .gguf (in any case) and is a
\* regular file; it then removes exactly that file; in every other case it
\* returns False and the files stay as they are.
C11_DeleteExactlyWhenDeletable == [][DeleteContract(del_call'.arg)]_vars

\* a model named through a ".." segment was deleted and every other file is
\* still on disk
C11_Witness ==
    /\ del_call.arg = PathJoin(PathJoin(PathJoin(ModelsDir, <<"s">>), DotDot), <<"a">> \o GGUF)
    /\ del_call.ret = Some(TRUE)
    /\ del_call.removed = {ModelA}
    /\ files = DiskFiles \ {ModelA}

\* ------------------------------------------------------------------------
\* C12
\* ------------------------------------------------------------------------
\* the call c has returned or raised
Finished(c) == c.ret # None \/ c.raised

\* number of requests (urlopen) made by the call c
Transfers(c) == IF c.requested THEN 1 ELSE 0

\* the last two calls of download_file are finished and had force=False
TwoCallsNoForce ==
    /\ dl.pc = "done"
    /\ Finished(dl_prev)
    /\ ~dl.force
    /\ ~dl_prev.force

\* a call with force=False that found the destination returned False without
\* a request
SkippedWithoutRequest ==
    (dl.pc = "done" /\ ~dl.force /\ dl.existed) =>
        (dl.ret = Some(FALSE) /\ ~dl.requested /\ ~dl.raised)

\* a call with force=True made a request
ForceAlwaysRequests ==
    (dl.pc = "done" /\ dl.force) => dl.requested

\* C12 as stated: download_file with force=False on an existing destination
\* returns False without a request, any two successive calls with force=False
\* make exactly one transfer between them, and a call with force=True always
\* makes a transfer.
C12_TwoCallsExactlyOneTransfer ==
    /\ SkippedWithoutRequest
    /\ TwoCallsNoForce => Transfers(dl_prev) + Transfers(dl) = 1
    /\ ForceAlwaysRequests

\* the step that starts a call with force=False on an existing destination
\* ends the call and leaves the files and their contents as they are
SkipLeavesFile ==
    (dl.pc \in {"idle", "done"} /\ dl'.existed /\ ~dl'.force) =>
        (dl'.pc = "done" /\ files' = files /\ fdata' = fdata)

\* C12 (amended): download_file with force=False on an existing destination
\* returns False at once, makes no request and leaves the file unchanged; of
\* two successive calls with force=False the second makes no transfer once
\* the first has returned True, so they make exactly one transfer when the
\* destination was absent before the first call and the first call completed,
\* and none when the destination was there before the first call; a call with
\* force=True always makes a request.
C12_SkipOnceDownloaded ==
    /\ [][SkipLeavesFile]_vars
    /\ [](/\ SkippedWithoutRequest
          /\ (TwoCallsNoForce /\ dl_prev.ret = Some(TRUE)) =>
                 /\ Transfers(dl_prev) + Transfers(dl) = 1
                 /\ dl.ret = Some(FALSE)
          /\ (TwoCallsNoForce /\ dl_prev.existed) =>
                 Transfers(dl_prev) + Transfers(dl) = 0
          /\ ForceAlwaysRequests)

\* the first call downloaded the absent destination, the second call with
\* force=False returned False and the downloaded bytes are still there
C12_Witness ==
    /\ TwoCallsNoForce
    /\ ~dl_prev.existed
    /\ dl_prev.ret = Some(TRUE)
    /\ dl_prev.requested
    /\ dl.ret = Some(FALSE)
    /\ ~dl.requested
    /\ fdata = FromNet(MaxBody)

\* ------------------------------------------------------------------------
\* C13
\* ------------------------------------------------------------------------
\* the response of the call in progress announced the length of its body
LengthMatchesBody == dl.total = Some(dl.size + dl.left)

\* the byte counter of a call never decreases and grows with every chunk
CounterGrows ==
    /\ (dl.pc = "l113" /\ dl'.pc \in {"l113", "done"}) => dl'.size >= dl.size
    /\ (dl.pc = "l113" /\ dl'.pc = "l113") => dl'.size > dl.size

\* the percentages given to the callback so far, each larger than the one
\* before (they are fractions over the same total)
PercentagesIncrease ==
    \A k \in 1..(Len(dl.progress) - 1) :
        /\ dl.progress[k].den = dl.progress[k + 1].den
        /\ dl.progress[k].num < dl.progress[k + 1].num

\* C13: in a download whose Content-Length equals the length of the body the
\* byte counter only grows, the callback receives strictly increasing
\* percentages, the last of them is 100.0 when the call returns (for a body
\* that is not empty), and the file then holds exactly the announced bytes.
C13_ProgressReaches100 ==
    /\ [][CounterGrows]_vars
    /\ []((dl.pc \in {"l113", "done"} /\ dl.requested /\ LengthMatchesBody) =>
            /\ PercentagesIncrease
            /\ \A k \in 1..Len(dl.progress) : dl.progress[k].size <= dl.progress[k].total
            /\ dl.ret = Some(TRUE) =>
                 /\ fdata = FromNet(dl.total[1])
                 /\ dl.size = dl.total[1]
                 /\ (dl.cb /\ dl.total[1] > 0) =>
                        /\ dl.progress # <<>>
                        /\ dl.progress[Len(dl.progress)].num
                             = 100 * dl.progress[Len(dl.progress)].den)

\* a body of MaxBody bytes with a matching Content-Length was downloaded in
\* more than one chunk and the last percentage reported is 100
C13_Witness ==
    /\ dl.pc = "done"
    /\ dl.ret = Some(TRUE)
    /\ dl.total = Some(MaxBody)
    /\ dl.size = MaxBody
    /\ Len(dl.progress) >= 2
    /\ dl.progress[1].num < 100 * MaxBody
    /\ dl.progress[Len(dl.progress)].num = 100 * MaxBody
    /\ fdata = FromNet(MaxBody)

\* ------------------------------------------------------------------------
\* C14
\* ------------------------------------------------------------------------
\* the regular files with the .gguf extension directly in a search directory
\* that can be listed
ModelFilesFound ==
    { f \in files :
        /\ EndsWith(Lower(f), GGUF)
        /\ \E k \in 1..Len(SearchDirs) :
             /\ listing[k].listable
             /\ \E j \in 1..Len(listing[k].names) :
                  f = PathJoin(SearchDirs[k], listing[k].names[j]) }

\* r is the answer of a scan: none without a candidate, else a candidate that
\* no other candidate is newer than
NewestFound(r) ==
    IF ModelFilesFound = {} THEN r = None
    ELSE /\ r # None
         /\ r[1] \in ModelFilesFound
         /\ \A f \in ModelFilesFound : mtimes[f] <= mtimes[r[1]]

\* C14 as stated: _find_local_gguf_model returns the most recently modified
\* .gguf regular file of the search directories and None when there is none.
C14_NewestOfSearchDirs ==
    found.calls >= 1 => NewestFound(found.ret)

\* position of the path f in the order in which the directories are scanned
ScanPosition(f) == CHOOSE k \in 1..Len(Candidates(1)) : Candidates(1)[k] = f

\* C14 (amended): when one of the three environment variables (the first that
\* is not empty, stripped) names a regular .gguf file, _find_local_gguf_model
\* returns that path without scanning; otherwise it returns the most
\* recently modified .gguf regular file found directly in the search
\* directories (of several equally recent ones the first scanned), None when
\* there is none; a repeated call with unchanged inputs returns the same.
C14_EnvPathElseNewest ==
    /\ [][found.calls >= 1 => found'.ret = found.ret]_vars
    /\ [](found.calls >= 1 =>
            IF EnvPath # <<>> /\ EnvPath \in files /\ EndsWith(Lower(EnvPath), GGUF)
            THEN found.ret = Some(EnvPath)
            ELSE /\ NewestFound(found.ret)
                 /\ \A f \in ModelFilesFound :
                        mtimes[f] = mtimes[found.ret[1]] =>
                            ScanPosition(found.ret[1]) <= ScanPosition(f))

\* no variable is set, the newest model lies in the last search directory and
\* two calls have returned it
C14_Witness ==
    /\ found.calls = MaxScans
    /\ env_vars = <<<<>>, <<>>, <<>>>>
    /\ listing[1].listable
    /\ mtimes[SiblingModel] = MaxTime
    /\ mtimes[ModelA] < MaxTime
    /\ mtimes[ModelUpper] < MaxTime
    /\ found.ret = Some(SiblingModel)

\* ------------------------------------------------------------------------
\* C15
\* ------------------------------------------------------------------------
\* the text put together from the pieces is ""
TextEmpty(text) == \A k \in 1..Len(text) : text[k] = ""

\* positions of the final chunks yielded so far
Finals == {k \in 1..Len(chat.chunks) : chat.chunks[k].final}

\* C15: whatever path complete_chat takes (empty conversation, local model,
\* model not ready, agent, any exception), it yields at most one final chunk
\* and nothing after it, every chunk before it is not final and has text, a
\* run that has ended has yielded exactly one final chunk, and the final chunk
\* of a run that ended without an error has the empty text.
C15_OneFinalChunkLast ==
    /\ [][Finals # {} => chat'.chunks = chat.chunks]_vars
    /\ [](/\ Cardinality(Finals) <= 1
          /\ Finals \subseteq {Len(chat.chunks)}
          /\ \A k \in 1..Len(chat.chunks) :
                ~chat.chunks[k].final =>
                    (~TextEmpty(chat.chunks[k].text) /\ ~chat.chunks[k].err)
          /\ chat.pc = "done" <=> Finals # {}
          /\ (chat.pc = "done" /\ ~chat.chunks[Len(chat.chunks)].err) =>
                (chat.raised = None /\ TextEmpty(chat.chunks[Len(chat.chunks)].text)))

\* the local model streamed MaxStream texts and the run ended with the empty
\* final chunk
C15_Witness ==
    /\ chat.pc = "done"
    /\ chat.route = "local"
    /\ Len(chat.chunks) = MaxStream + 1
    /\ \A k \in 1..MaxStream : chat.chunks[k] = Chunk(<<"tok">>, FALSE, FALSE)
    /\ chat.chunks[MaxStream + 1] = Chunk(<<>>, TRUE, FALSE)

\* ------------------------------------------------------------------------
\* C16
\* ------------------------------------------------------------------------
\* the backend is local and the configured model path is a file on disk
LocalConfigured ==
    chat.backend = "local" /\ chat.path # <<>> /\ chat.path \in files

\* a call for a conversation that is not empty has ended
ChatEnded == chat.pc = "done" /\ chat.messages

\* C16 as stated: the local handle is driven exactly when the backend is
\* local, the model path is configured and on disk and the loader is Ready;
\* in every other case the call goes to the agent.
C16_LocalElseRemote ==
    ChatEnded =>
        IF LocalConfigured /\ chat.llm # None
        THEN chat.route = "local"
        ELSE chat.route = "remote"

\* C16 (amended): the local handle is driven exactly when the backend is
\* local, the model path is configured and on disk and the accessor returned
\* a handle (loader Ready); with the local backend and a model file on disk
\* but no handle (still Loading, or Failed) the call neither drives the
\* handle nor goes to the agent: it yields one final internal-error chunk and
\* returns; in every remaining case the call goes to the agent.
C16_LocalRemoteOrNotReady ==
    /\ chat.route = "local" => (LocalConfigured /\ chat.llm # None)
    /\ ChatEnded =>
         /\ (LocalConfigured /\ chat.llm # None) => chat.route = "local"
         /\ (LocalConfigured /\ chat.llm = None) =>
                /\ chat.route = "none"
                /\ Len(chat.chunks) = 1
                /\ chat.chunks[1].final
                /\ chat.chunks[1].err
         /\ ~LocalConfigured => chat.route = "remote"

\* the local backend with the model on disk was asked while the load was
\* still running: one chunk, no completion by the handle or by the agent
C16_Witness ==
    /\ ChatEnded
    /\ LocalConfigured
    /\ pc[1] = "l173"
    /\ chat.llm = None
    /\ chat.route = "none"
    /\ chat.chunks = <<Chunk(<<"Model is still loading. Try again in a moment.">>, TRUE, TRUE)>>

\* ------------------------------------------------------------------------
\* C17
\* ------------------------------------------------------------------------
\* an exception was raised while the local handle was driven
LocalRaised == chat.route = "local" /\ chat.raised # None

\* C17: an exception on the local path, raised while the messages are built,
\* the stream is opened or after some chunks were yielded, gives exactly one
\* final chunk, marked as internal error, whose text contains str(e); that
\* chunk is the last one and no chunk follows it.
C17_LocalExceptionOneErrorChunk ==
    /\ [][LocalRaised => chat'.chunks = chat.chunks]_vars
    /\ [](LocalRaised =>
            LET last == chat.chunks[Len(chat.chunks)]
            IN  /\ chat.pc = "done"
                /\ last.final
                /\ last.err
                /\ \E k \in 1..Len(last.text) : last.text[k] = chat.raised[1]
                /\ \A k \in 1..(Len(chat.chunks) - 1) :
                      ~chat.chunks[k].final /\ ~chat.chunks[k].err)

\* the stream of the local model broke after one text: the text is followed
\* by the error chunk with the message of the exception
C17_Witness ==
    /\ chat.pc = "done"
    /\ chat.route = "local"
    /\ chat.raised = Some("connection reset")
    /\ chat.chunks = <<Chunk(<<"tok">>, FALSE, FALSE),
                       Chunk(<<"Error: ", "connection reset", ". See frontend.log for details.">>,
                             TRUE, TRUE)>>

\* ------------------------------------------------------------------------
\* C18
\* ------------------------------------------------------------------------
\* number of entries in front of the entries of the conversation
SystemEntries == IF conv.instructions # <<>> THEN 1 ELSE 0

\* the content that the entry of message k has without the git context
PlainContent(k) ==
    IF conv.messages[k].role = "user"
    THEN <<"formatted:">> \o conv.messages[k].content
    ELSE conv.messages[k].content

\* C18: the list built for the local model starts with the system
\* instructions when there are any, then has exactly one entry per message of
\* the conversation, in order, with a role outside user/assistant/system
\* turned into user; when there is git context and the last entry has the
\* role user, the content of that entry is the context followed by its own
\* text, and no other entry is changed.
C18_MessageListForLocalModel ==
    conv.out # None =>
        LET out == conv.out[1]
            n == Len(conv.messages)
        IN  /\ Len(out) = SystemEntries + n
            /\ SystemEntries = 1 =>
                   out[1] = [role |-> "system", content |-> conv.instructions]
            /\ \A k \in 1..n :
                   /\ out[SystemEntries + k].role =
                          (IF conv.messages[k].role \in {"assistant", "system"}
                           THEN conv.messages[k].role ELSE "user")
                   /\ out[SystemEntries + k].content =
                          IF /\ k = n
                             /\ conv.git_info # <<>>
                             /\ out[SystemEntries + k].role = "user"
                          THEN <<"Current git context:\n">> \o conv.git_info
                                   \o <<"\n\n---\n\n">> \o PlainContent(k)
                          ELSE PlainContent(k)

\* instructions, an assistant message and a last message with an unknown
\* role: three entries, the last one a user entry that carries the git context
C18_Witness ==
    /\ conv.out # None
    /\ conv.instructions # <<>>
    /\ conv.git_info = <<"On branch main">>
    /\ Len(conv.messages) = 2
    /\ conv.messages[1].role = "assistant"
    /\ conv.messages[2] = [role |-> "tool", content |-> <<"hi">>]
    /\ Len(conv.out[1]) = 3
    /\ conv.out[1][3] = [role |-> "user",
                         content |-> <<"Current git context:\n", "On branch main",
                                       "\n\n---\n\n", "hi">>]

\* ------------------------------------------------------------------------
\* C19
\* ------------------------------------------------------------------------
\* a call of get_ready with the local backend has returned
LocalReadyEnded == ready.pc = "done" /\ ready.backend = "local"

\* the only box shown by the call has this kind and title
OnlyBox(kind, title) ==
    /\ Len(ready.boxes) = 1
    /\ ready.boxes[1].kind = kind
    /\ ready.boxes[1].title = title

\* C19: with the local backend and a model path configured get_ready returns
\* True only when the loader is Ready (the accessor gave a handle); when the
\* loader is Failed (no handle, an error recorded) it returns False with the
\* "failed to load" box, when it is still Loading (no handle, no error) it
\* returns False with the "Model loading" box; without model path and Base
\* URL it returns False with the "Local backend" configuration box.
C19_ReadyFailedLoadingMessages ==
    LocalReadyEnded =>
        /\ (ready.path # <<>> /\ ready.ret = Some(TRUE)) => ready.llm # None
        /\ (ready.path # <<>> /\ ready.llm = None /\ ready.err # None) =>
               /\ ready.ret = Some(FALSE)
               /\ OnlyBox("error", "llama-cpp-python model failed to load")
        /\ (ready.path # <<>> /\ ready.llm = None /\ ready.err = None) =>
               /\ ready.ret = Some(FALSE)
               /\ OnlyBox("info", "Model loading")
        /\ (ready.path = <<>> /\ Strip(ready.url0) = <<>>) =>
               /\ ready.ret = Some(FALSE)
               /\ OnlyBox("error", "Local backend")

\* the load failed with an exception whose str() is empty and get_ready
\* answered with the box of a model that is still loading
C19_Witness ==
    /\ LocalReadyEnded
    /\ ready.path = ModelA
    /\ AllFinished
    /\ llama_instance = None
    /\ llama_load_error = Some("")
    /\ ready.err = Some("")
    /\ ready.ret = Some(FALSE)
    /\ OnlyBox("info", "Model loading")

\* ------------------------------------------------------------------------
\* C20
\* ------------------------------------------------------------------------
\* a key that is stored and not empty
Stored(key) == key # None /\ key # Some("")

\* the call started with the api backend, no stored key and no Base URL
ApiUnconfigured ==
    /\ ready.pc # "idle"
    /\ ready.backend = "api"
    /\ ~Stored(ready.key0)
    /\ Strip(ready.url0) = <<>>

\* C20: get_ready with the api backend, no stored key and no Base URL shows
\* the configuration dialog once; when no key is stored after the dialog it
\* returns False, and it never returns True without a stored key; in no other
\* configuration is the dialog shown.
C20_PromptOnceThenKeyRequired ==
    /\ ready.dialogs <= 1
    /\ ready.dialogs = 1 => ApiUnconfigured
    /\ (ApiUnconfigured /\ ready.pc = "done") =>
           /\ ready.dialogs = 1
           /\ ~Stored(ready.api_key) => (ready.ret = Some(FALSE) /\ ready.boxes = <<>>)
           /\ ready.ret = Some(TRUE) => Stored(ready.api_key)

\* the dialog was shown once, the user stored nothing and the call returned
\* False
C20_Witness ==
    /\ ApiUnconfigured
    /\ ready.pc = "done"
    /\ ready.url0 = <<SP>>
    /\ ready.dialogs = 1
    /\ ready.api_key = None
    /\ ready.ret = Some(FALSE)

\* ------------------------------------------------------------------------
\* C21
\* ------------------------------------------------------------------------
\* a step that is a call of cancel_completion
IsCancel == chat'.cancels # chat.cancels

\* the call leaves the loader, what the reader holds, the options read by the
\* completion and the stream of the completion as they are
CancelFrame ==
    IsCancel =>
        /\ loaderVars' = loaderVars
        /\ uiVars' = uiVars
        /\ storeVars' = storeVars
        /\ chat' = [chat EXCEPT !.cancels = chat'.cancels, !.cancel_pc = chat.pc]

\* C21: cancel_completion is a no-op: a call at any point leaves the loader
\* state, the configuration and the ongoing chunk stream unchanged, and a
\* completion that was cancelled still ends with its one final chunk, the last.
C21_CancelIsNoOp ==
    /\ [][CancelFrame]_vars
    /\ []((ChatEnded /\ chat.cancel_pc \notin {"none", "idle", "done"}) =>
             (Finals = {Len(chat.chunks)} /\ Len(chat.chunks) >= 1))

\* cancelled while the remote stream had given one text, the stream gave a
\* second text and its final chunk
C21_Witness ==
    /\ chat.pc = "done"
    /\ chat.cancel_pc = "l399"
    /\ chat.items = 2
    /\ chat.route = "remote"
    /\ chat.raised = None
    /\ Len(chat.chunks) = 3
    /\ chat.chunks[3] = Chunk(<<>>, TRUE, FALSE)

\* ------------------------------------------------------------------------
\* C22
\* ------------------------------------------------------------------------
\* a call of download_model has ended
ModelCallEnded == dl.mpc = "done"

\* C22: download_model returns the path of the .gguf file when it performed
\* the download, and returns None when the destination file already exists
\* and force is false.
C22_PathWhenDownloadedElseNone ==
    ModelCallEnded =>
        /\ dl.ret = Some(TRUE) => dl.mret = Some(dl.mdest)
        /\ (dl.existed /\ ~dl.force) => (dl.mret = None /\ ~dl.raised)

\* the destination was on disk, force was false, and the call returned the
\* path of the destination without a request
C22_Witness ==
    /\ ModelCallEnded
    /\ dl.existed
    /\ ~dl.force
    /\ ~dl.requested
    /\ dl.mret = Some(Dest)

\* ------------------------------------------------------------------------
\* C27
\* ------------------------------------------------------------------------
\* check_done has shown its message box for a flow whose worker failed
FailureReported == page.failed /\ page.pc = "idle" /\ page.box # None

\* C27: whenever the download worker fails with an exception e, check_done
\* reports the message of e, never the "Unknown error" fallback, under every
\* interleaving of the worker's writes to the result list and the poll.
C27_FailureReportsMessage ==
    FailureReported =>
        /\ page.box[1].kind = "error"
        /\ page.box[1].text = ErrorShown(page.err)
        /\ page.box[1].text # UnknownError

\* check_done ran between the two appends of the except clause: the box says
\* "Unknown error" and the list holds the message of the exception
C27_Witness ==
    /\ FailureReported
    /\ page.wpc = "done"
    /\ page.result = <<None, Some(<<"t", "o">>)>>
    /\ page.box = Some(Box("error", "Download failed", UnknownError))

\* ------------------------------------------------------------------------
\* C28
\* ------------------------------------------------------------------------
\* no transfer is running and the destination holds the first bytes of a
\* body whose transfer failed (every body of SpecModel has MaxBody bytes)
Partial ==
    /\ dl.pc \in {"idle", "done"}
    /\ IsFile(Dest)
    /\ fdata.src = "net"
    /\ fdata.len < MaxBody

\* a step that ends the partial file is a forced download or a delete
PartialUntilForcedOrDeleted ==
    (Partial /\ ~Partial') =>
        \/ dl'.pc = "l100" /\ dl'.force
        \/ del_call'.removed = {Dest} /\ ~IsFile(Dest)'

ChunksWritten == (dl.size + ChunkSize - 1) \div ChunkSize

\* the total of the Content-Length header of the response, if it has one
ReportedTotal == ParseTotal(dl.hdr)

\* every percentage given to the callback lies in [0, 100]
PercentagesInRange ==
    \A k \in 1..Len(dl.progress) :
        /\ dl.progress[k].den > 0
        /\ dl.progress[k].num >= 0
        /\ dl.progress[k].num <= 100 * dl.progress[k].den

\* C24: when the server reports a total length the progress callback is
\* invoked exactly once after each chunk written and every percentage lies in
\* [0, 100], even if more bytes arrive than the total; when no total length is
\* reported the callback is never invoked.
C24_CallbackOncePerChunk ==
    (dl.cb /\ dl.pc \in {"l113", "done"}) =>
        /\ ReportedTotal # None =>
              (Len(dl.progress) = ChunksWritten /\ PercentagesInRange)
        /\ ReportedTotal = None => dl.progress = <<>>

\* a chunk written with a callback and a positive total gives one more call,
\* made with the new byte count
OneCallPerChunk ==
    (dl'.size > dl.size /\ ReportsProgress(dl.cb, dl.total)) =>
        /\ Len(dl'.progress) = Len(dl.progress) + 1
        /\ dl'.progress[Len(dl'.progress)].size = dl'.size

\* C24, amended: the callback is invoked exactly once after each chunk
\* written when the reported total is positive, with percentages in [0, 100]
\* even if more bytes arrive than the total; with no total, a total of 0 or no
\* callback it is never invoked.
C24_CallbackOncePerChunkPositiveTotal ==
    /\ [][OneCallPerChunk]_vars
    /\ [](dl.pc \in {"l113", "done"} =>
            /\ (dl.cb /\ ReportedTotal # None /\ ReportedTotal[1] > 0) =>
                  (Len(dl.progress) = ChunksWritten /\ PercentagesInRange)
            /\ (~dl.cb \/ ReportedTotal = None \/ ReportedTotal[1] = 0) =>
                  dl.progress = <<>>)

\* a body of MaxBody bytes arrived for a Content-Length of 1: one call per
\* chunk, each with 100
C24_Witness ==
    /\ dl.pc = "done"
    /\ dl.cb
    /\ dl.total = Some(1)
    /\ dl.size = MaxBody
    /\ Len(dl.progress) = ChunksWritten
    /\ Len(dl.progress) >= 2
    /\ \A k \in 1..Len(dl.progress) : dl.progress[k].num = 100 * dl.progress[k].den

\* ------------------------------------------------------------------------
\* C25
\* ------------------------------------------------------------------------
\* a step in which download_file raises: nothing is returned, and the file
\* system is left as it is, the bytes written so far included
FailureLeavesBytes ==
    (~dl.raised /\ dl'.raised) =>
        /\ dl'.pc = "done"
        /\ dl'.ret = None
        /\ files' = files
        /\ fdata' = fdata
        /\ dl.pc = "l113" => (IsFile(Dest) /\ fdata = FromNet(dl.size))

\* the call after a failed one, made with force, is never skipped
RetryTransfers ==
    (dl.pc = "done" /\ dl.raised /\ dl'.pc # "done" /\ dl'.force) =>
        dl'.pc = "l100"

\* C25: when a transfer fails, at connection time or in the middle of the
\* body, the error propagates to the caller, the bytes already written stay
\* on disk with no cleanup, and a retry with force transfers again and
\* replaces the partial file.
C25_FailurePropagatesPartialStays ==
    /\ [][FailureLeavesBytes]_vars
    /\ [][RetryTransfers]_vars
    /\ []((dl.force /\ dl_prev.raised /\ dl.pc # "idle") =>
            /\ dl.pc = "done" => dl.requested
            /\ dl.pc = "l113" => fdata = FromNet(dl.size)
            /\ dl.ret = Some(TRUE) => (IsFile(Dest) /\ fdata = FromNet(dl.size)))

\* a transfer failed after its first chunk and the forced retry replaced the
\* partial file by a whole body of another length
C25_Witness ==
    /\ dl_prev.raised
    /\ dl_prev.left > 0
    /\ dl_prev.left < MaxBody
    /\ dl.force
    /\ dl.ret = Some(TRUE)
    /\ dl.size = 1
    /\ fdata = FromNet(1)

\* ------------------------------------------------------------------------
\* C23
\* ------------------------------------------------------------------------
\* the completion is past _get_llama_model: it builds the messages, streams
\* from the local model or from the agent, or reports a model that is not there
StreamingPcs == {"l337", "l344", "l358", "l373", "l399"}

\* the load thread is importing llama_cpp or building the model
BuildingPcs == {"l168", "l173"}

\* complete_chat has called _get_llama_model and the call has not returned
HandleAsked == chat.pc = "l334"

\* C23: the lock is held only during a read or write of the handle and error
\* fields: the load thread does not hold it while the model is being built,
\* the thread of a completion does not hold it while it streams, every holder
\* releases it, and a _get_llama_model call made during a load always gets
\* the lock and returns.
C23_LockOnlyAroundFields ==
    /\ [](llama_loading = 1 <=> pc[1] \in LockedPcs)
    /\ [](llama_loading = UiThread <=> ui_pc = "l147")
    /\ [](pc[1] \in BuildingPcs => llama_loading # 1)
    /\ [](chat.pc \in StreamingPcs => llama_loading = Free \/ llama_loading = 1)
    /\ (llama_loading # Free) ~> (llama_loading = Free)
    /\ HandleAsked ~> ~HandleAsked

\* the completion got its answer from _get_llama_model (no handle yet) while
\* the load thread was building the model
C23_Witness ==
    /\ pc[1] = "l173"
    /\ chat.pc = "l334"
    /\ ui_pc = "ret"
    /\ ui_llm = None
    /\ llama_loading = Free

\* ------------------------------------------------------------------------
\* C29
\* ------------------------------------------------------------------------
\* load thread i has found a model file at the configured path and has not
\* finished; a thread runs once, so it is never in this state again later
ValidPathFound(i) == pc[i] \in LoadingPcs

\* thread i can take its next step
CanStep(i) == ENABLED PreloadLlamaModel(i, LivePaths, LiveCtxs)

\* no one waits for a lock that nobody will release: a load thread that
\* cannot step waits for the lock, and the holder of the lock can step
NoDeadlock ==
    /\ \A i \in Loads :
          (pc[i] \notin {"idle", "done"} /\ ~CanStep(i)) =>
              (pc[i] \in {"l170", "l179", "l185"} /\ llama_loading \notin {Free, i})
    /\ \A i \in Loads : llama_loading = i => CanStep(i)
    /\ llama_loading = UiThread => ENABLED GetLlamaModelReturn
    /\ (ui_pc = "idle" /\ llama_loading = Free) => ENABLED GetLlamaModelLock

\* C29: every background load started with a valid model path eventually
\* publishes Ready or Failed, given that the model constructor returns or
\* raises; the lock is always released, and no sequence of load starts and
\* _get_llama_model calls deadlocks.
C29_LoadPublishesNoDeadlock ==
    /\ <>[](\A i \in Loads : ~ValidPathFound(i))
    /\ [](\A i \in Loads : (pc[i] = "done" /\ path[i] = ModelA) => Published(i))
    /\ []<>(llama_loading = Free)
    /\ []NoDeadlock

\* the second load waits for the lock held by the reader while the first load
\* has published
C29_Witness ==
    /\ Published(1)
    /\ pc[1] = "done"
    /\ pc[2] = "l185"
    /\ llama_loading = UiThread

\* ------------------------------------------------------------------------
\* C26
\* ------------------------------------------------------------------------
\* the messages before the last one
Prior == SubSeq(conv.messages, 1, Len(conv.messages) - 1)

\* positions of the prior turns that go into the history: user turns and
\* assistant turns with a content
Turns ==
    {k \in 1..Len(Prior) :
        \/ Prior[k].role = "user"
        \/ Prior[k].role = "assistant" /\ Prior[k].content # <<>>}

\* the position in Prior of the j-th turn that goes into the history
TurnAt(j) == CHOOSE k \in Turns : Cardinality({m \in Turns : m < k}) = j - 1

\* C26: on the remote path the prior turns are rebuilt as history by skipping
\* system messages and converting each user turn to a request and each
\* non-empty assistant turn to a response, in order; a failure while
\* rebuilding the history gives a completion with no history, never a failed
\* call.
C26_HistoryOfPriorTurns ==
    conv.history.built =>
        /\ ~conv.history.raised
        /\ conv.history.fail # "none" => conv.history.value = None
        /\ (conv.history.fail = "none" /\ Turns = {}) => conv.history.value = None
        /\ (conv.history.fail = "none" /\ Turns # {}) =>
              /\ conv.history.value # None
              /\ LET h == conv.history.value[1]
                 IN  /\ Len(h) = Cardinality(Turns)
                     /\ \A j \in 1..Len(h) :
                           /\ h[j].content = Prior[TurnAt(j)].content
                           /\ h[j].kind = IF Prior[TurnAt(j)].role = "user"
                                          THEN "request" ELSE "response"
                           /\ h[j].kind = "request" =>
                                 h[j].instructions = conv.instructions

\* two prior turns, a question and its answer: the history holds the request
\* and the response, in this order
C26_Witness ==
    /\ conv.history.built
    /\ conv.history.fail = "none"
    /\ Len(conv.messages) = 3
    /\ conv.messages[1] = [role |-> "user", content |-> <<"hi">>]
    /\ conv.messages[2] = [role |-> "assistant", content |-> <<"hi">>]
    /\ conv.instructions = <<"Be brief.">>
    /\ conv.history.value =
         Some(<<[kind |-> "request", content |-> <<"hi">>,
                 instructions |-> <<"Be brief.">>],
                [kind |-> "response", content |-> <<"hi">>, instructions |-> <<>>]>>)

\* ------------------------------------------------------------------------
\* C30
\* ------------------------------------------------------------------------
\* what the user stored, as the options say it
StoredOptions(c) ==
    [backend |-> c.backend, base_url |-> c.base_url, model_path |-> c.model_path,
     api_key |-> c.api_key]

BaseUrlConfigured == Strip(cfg.base_url) # <<>>

PathConfigured == Strip(cfg.model_path) # <<>>

PathOnDisk == PathConfigured /\ IsFile(Strip(cfg.model_path))

KeyStored == cfg.api_key # None /\ cfg.api_key[1] # <<>>

\* the step of the handler
StartupFrame ==
    (~cfg.ensured /\ cfg'.ensured) =>
        /\ cfg'.base_url = cfg.base_url
        /\ cfg'.api_key = cfg.api_key
        /\ (BaseUrlConfigured \/ PathOnDisk) => StoredOptions(cfg') = StoredOptions(cfg)
        /\ (~BaseUrlConfigured /\ PathConfigured /\ ~PathOnDisk) =>
              cfg'.model_path # cfg.model_path
              /\ (cfg'.model_path = <<>> \/ (found'.ret = Some(cfg'.model_path)
                                               /\ found'.calls = found.calls + 1))
        /\ cfg'.backend # cfg.backend =>
              /\ cfg.backend = "api"
              /\ cfg'.backend = "local"
              /\ ~KeyStored
              /\ found'.calls = found.calls + 1
              /\ found'.ret # None
              /\ cfg'.model_path = found'.ret[1]
              /\ IsFile(cfg'.model_path)
        /\ KeyStored => cfg'.backend = cfg.backend

\* C30: startup auto-configuration changes nothing when a Base URL is
\* configured or when the configured model path exists on disk; it clears a
\* configured path that no longer exists; and it switches the backend from api
\* to local only when no API key is stored and a model file was found and
\* stored as the model path, never when an API key is present.
C30_StartupAutoConfiguration == [][StartupFrame]_vars

\* the stored path was gone and no key was stored: the path found in the
\* models directory replaced it and the backend went from api to local
C30_Witness ==
    /\ cfg.ensured
    /\ cfg.model_path0 = ModelMissing
    /\ cfg.backend0 = "api"
    /\ cfg.backend = "local"
    /\ cfg.api_key = Some(<<>>)
    /\ cfg.base_url = <<SP>>
    /\ cfg.model_path = ModelA
    /\ found = [calls |-> 1, ret |-> Some(ModelA)]
    /\ env_vars[2] = <<>>
    /\ ui_pc = "idle"

====
